---- MODULE Spec2Model ----
(***************************************************************************)
(* Relationship inference engine of the family-tree backend                *)
(* (apps/backend/api/relationships.py).                                    *)
(*                                                                         *)
(* The state is the stored snapshot of one tree (the member rows and the   *)
(* relationship rows, both in storage order) together with the last query  *)
(* answered by _compute_relationship on the graph built from it.  Spec     *)
(* takes a query as one step; SpecTraversal takes it one loop iteration    *)
(* at a time, on snapshots with arbitrary (cyclic, self-referential) rows. *)
(* SpecSnapshot runs the graph builder alone, SpecOrder stores one family  *)
(* in every order, SpecHousehold grows a household around a remarried      *)
(* parent, SpecRender and SpecOrdinal apply the two string formatters.     *)
(* SpecMarriage and SpecChildren run the handlers that store and delete    *)
(* spouse and parent-child rows and change the settings of the tree, one   *)
(* request at a time; SpecRace interleaves two add_spouse requests.        *)
(*                                                                         *)
(* Python values are modelled as follows.                                  *)
(*   - a member id (UUID) is a positive integer; None is 0;                *)
(*   - a list is a sequence; a dict is a sequence of entries in insertion  *)
(*     order (for the ancestor map, whose iteration order the code relies  *)
(*     on) or a function (for the adjacency maps, read only by key);       *)
(*   - a relationship label (a str) is the sequence of the pieces the code *)
(*     concatenates, e.g. <<"great-", "grandparent", "-in-law">>; Str      *)
(*     renders it to the Python string, Contains is the `in` test.         *)
(***************************************************************************)
EXTENDS Integers, Sequences, FiniteSets, TLC

VARIABLES members, rels, created, inserted, pc, from_id, to_id, result,
          built, maps, turn, bfs, walk, gender, gendered, level, ordinal,
          settings, status, requests, genders

vars == <<members, rels, created, inserted, pc, from_id, to_id, result,
          built, maps, turn, bfs, walk, gender, gendered, level, ordinal,
          settings, status, requests, genders>>

\* the locals of a running query: the graph built for it, the ancestor maps
\* collected so far, which member's ancestors are being collected, and the
\* locals of the two breadth-first searches
traversal == <<built, maps, turn, bfs, walk>>

\* the arguments and values of the two string formatters: the gender of the
\* member a label is rendered for and the rendered label; the number an
\* ordinal is formatted from and the ordinal
formatting == <<gender, gendered, level, ordinal>>

\* the management of a tree: its settings, the HTTP status of the last
\* response, the locals of the requests being handled at the same time, and
\* the gender column of the member rows
administration == <<settings, status, requests, genders>>

(***************************************************************************)
(* Bounds of the model.                                                    *)
(***************************************************************************)
\* longest line of descent below the founder in a snapshot loaded at start
MaxDepth == 5
\* most parent-child rows in a snapshot loaded at start
MaxSeedRels == 7
\* members created after the start
MaxNewMembers == 1
\* relationship rows inserted after the start
MaxExtraRels == 2
\* rows a snapshot may hold when a further row is inserted
MaxRels == 5

None == 0

(***************************************************************************)
(* Sequence helpers (Python list / dict primitives).                       *)
(***************************************************************************)
Range(s) == {s[i] : i \in 1..Len(s)}

\* x in list
InList(x, s) == \E i \in 1..Len(s) : s[i] = x

\* dict.get(k, [])
Get(d, k) == IF k \in DOMAIN d THEN d[k] ELSE <<>>

\* "great-" * n
RECURSIVE Times(_, _)
Times(tok, n) == IF n <= 0 THEN <<>> ELSE <<tok>> \o Times(tok, n - 1)

(***************************************************************************)
(* Labels.                                                                 *)
(***************************************************************************)
\* the Python string a label stands for
RECURSIVE Str(_)
Str(label) == IF label = <<>> THEN "" ELSE Head(label) \o Str(Tail(label))

\* the substrings (among those the code searches for) of one piece of a label
Subs(tok) ==
  CASE tok = "grandparent" -> {"grandparent", "parent"}
    [] tok = "grandchild" -> {"grandchild", "child"}
    [] tok = "aunt/uncle" -> {"aunt/uncle", "aunt", "uncle"}
    [] tok = " cousin" -> {"cousin"}
    [] tok = ", once removed" -> {"removed"}
    [] tok = ", twice removed" -> {"removed"}
    [] tok = " times removed" -> {"removed"}
    [] tok = "cousin-aunt/uncle" -> {"cousin-aunt/uncle", "cousin", "aunt/uncle", "aunt", "uncle"}
    [] OTHER -> {tok}

\* needle in label
Contains(label, needle) == \E i \in 1..Len(label) : needle \in Subs(label[i])

\* label.replace(tok, "")
Without(label, tok) == SelectSeq(label, LAMBDA t : t # tok)

(***************************************************************************)
(* Graph Builder.                                                          *)
(***************************************************************************)
\* Adjacent recording a spouse row at its first endpoint only
RECURSIVE AdjacentOneWay(_, _, _, _)
AdjacentOneWay(m, rows, type, side) ==
  IF rows = <<>> THEN <<>>
  ELSE LET rel == Head(rows)
           rest == AdjacentOneWay(m, Tail(rows), type, side)
       IN  IF rel.type # type THEN rest
           ELSE CASE side = "children" ->
                       (IF rel.a = m THEN <<rel.b>> ELSE <<>>) \o rest
                  [] side = "parents" ->
                       (IF rel.b = m THEN <<rel.a>> ELSE <<>>) \o rest
                  [] side = "spouses" ->
                       (IF rel.a = m THEN <<rel.b>> ELSE <<>>) \o rest

\* [x for each row of the given type, in row order] appended per endpoint
RECURSIVE Adjacent(_, _, _, _)
Adjacent(m, rows, type, side) ==
  IF rows = <<>> THEN <<>>
  ELSE LET rel == Head(rows)
           rest == Adjacent(m, Tail(rows), type, side)
       IN  IF rel.type # type THEN rest
           ELSE CASE side = "children" ->
                       (IF rel.a = m THEN <<rel.b>> ELSE <<>>) \o rest
                  [] side = "parents" ->
                       (IF rel.b = m THEN <<rel.a>> ELSE <<>>) \o rest
                  [] side = "spouses" ->
                       (IF rel.a = m THEN <<rel.b>> ELSE <<>>)
                         \o (IF rel.b = m THEN <<rel.a>> ELSE <<>>) \o rest

\* a row one of whose endpoints is no key of the adjacency dicts
Dangling(member_rows, rows) ==
  \E i \in 1..Len(rows) :
      /\ rows[i].type \in {"spouse", "parent-child"}
      /\ ~ ({rows[i].a, rows[i].b} \subseteq Range(member_rows))

_build_relationship_graph(member_rows, rows) ==
  [ members  |-> member_rows,
    spouses  |-> [m \in Range(member_rows) |-> Adjacent(m, rows, "spouse", "spouses")],
    parents  |-> [m \in Range(member_rows) |-> Adjacent(m, rows, "parent-child", "parents")],
    children |-> [m \in Range(member_rows) |-> Adjacent(m, rows, "parent-child", "children")] ]

(***************************************************************************)
(* Ancestor Distance Index.  The ancestor dict is kept as the sequence of  *)
(* its entries in insertion order, the order `for ... in ancestors.items()`*)
(* visits them.                                                            *)
(***************************************************************************)
\* ancestor_id in ancestors
InMap(anc, id) == \E i \in 1..Len(anc) : anc[i].id = id

\* ancestors[ancestor_id]
Dist(anc, id) == anc[CHOOSE i \in 1..Len(anc) : anc[i].id = id].d

\* ScanParents recording the distance of the member being expanded
RECURSIVE ScanParentsSameDistance(_, _, _)
ScanParentsSameDistance(plist, distance, st) ==
  IF plist = <<>> THEN st
  ELSE LET parent_id == Head(plist) IN
       IF parent_id \notin st.visited
       THEN ScanParentsSameDistance(Tail(plist), distance,
              [ visited   |-> st.visited \cup {parent_id},
                ancestors |-> Append(st.ancestors, [id |-> parent_id, d |-> distance + 1]),
                queue     |-> Append(st.queue, [id |-> parent_id, d |-> distance]) ])
       ELSE ScanParentsSameDistance(Tail(plist), distance, st)

\* ScanParents without the `if parent_id not in visited` test
RECURSIVE ScanParentsRevisiting(_, _, _)
ScanParentsRevisiting(plist, distance, st) ==
  IF plist = <<>> THEN st
  ELSE ScanParentsRevisiting(Tail(plist), distance,
         [ visited   |-> st.visited \cup {Head(plist)},
           ancestors |-> Append(st.ancestors, [id |-> Head(plist), d |-> distance + 1]),
           queue     |-> Append(st.queue, [id |-> Head(plist), d |-> distance + 1]) ])

\* ScanParents following only the first recorded parent of each member
ScanParentsFirstOnly(plist, distance, st) ==
  IF plist = <<>> \/ Head(plist) \in st.visited THEN st
  ELSE [ visited   |-> st.visited \cup {Head(plist)},
         ancestors |-> Append(st.ancestors, [id |-> Head(plist), d |-> distance + 1]),
         queue     |-> Append(st.queue, [id |-> Head(plist), d |-> distance + 1]) ]

\* the inner `for parent_id in parents.get(current_id, [])` loop
RECURSIVE ScanParents(_, _, _)
ScanParents(plist, distance, st) ==
  IF plist = <<>> THEN st
  ELSE LET parent_id == Head(plist) IN
       IF parent_id \notin st.visited
       THEN ScanParents(Tail(plist), distance,
              [ visited   |-> st.visited \cup {parent_id},
                ancestors |-> Append(st.ancestors, [id |-> parent_id, d |-> distance + 1]),
                queue     |-> Append(st.queue, [id |-> parent_id, d |-> distance + 1]) ])
       ELSE ScanParents(Tail(plist), distance, st)

\* AncestorStart with a visited set that does not hold the start
AncestorStartUnvisited(member_id) ==
  [ visited   |-> {},
    ancestors |-> <<>>,
    queue     |-> <<[id |-> member_id, d |-> 0]>> ]

\* the locals before the loop
AncestorStart(member_id) ==
  [ visited   |-> {member_id},
    ancestors |-> <<>>,
    queue     |-> <<[id |-> member_id, d |-> 0]>> ]

\* one iteration of `while queue`: pop the head and scan its parents
AncestorIteration(st, parents) ==
  ScanParents(Get(parents, Head(st.queue).id), Head(st.queue).d,
              [st EXCEPT !.queue = Tail(st.queue)])

\* the `while queue` loop
RECURSIVE AncestorLoop(_, _)
AncestorLoop(st, parents) ==
  IF st.queue = <<>> THEN st.ancestors
  ELSE AncestorLoop(AncestorIteration(st, parents), parents)

_get_ancestors_and_distance(member_id, graph) ==
  AncestorLoop(AncestorStart(member_id), graph.parents)

(***************************************************************************)
(* Ordinal Formatter.                                                      *)
(***************************************************************************)
\* _ordinal without the exception band
_ordinal_last_digit(n) ==
  ToString(n) \o (CASE n % 10 = 1 -> "st"
                   [] n % 10 = 2 -> "nd"
                   [] n % 10 = 3 -> "rd"
                   [] OTHER -> "th")

_ordinal(n) ==
  LET suffix == IF 10 <= n % 100 /\ n % 100 <= 20 THEN "th"
                ELSE CASE n % 10 = 1 -> "st"
                       [] n % 10 = 2 -> "nd"
                       [] n % 10 = 3 -> "rd"
                       [] OTHER -> "th"
  IN  ToString(n) \o suffix

(***************************************************************************)
(* Path Reconstructor.                                                     *)
(***************************************************************************)
\* the inner `for` loop of the bounded search: either the path that ends at
\* to_id, or the queue and visited set after the neighbours were enqueued
RECURSIVE ScanNeighbours(_, _, _, _, _)
ScanNeighbours(nlist, path, to, max_depth, st) ==
  IF nlist = <<>> THEN st
  ELSE LET next_id == Head(nlist)
           new_path == Append(path, next_id)
       IN  IF next_id = to THEN [st EXCEPT !.found = TRUE, !.path = new_path]
           ELSE IF next_id \notin st.visited /\ Len(new_path) < max_depth
           THEN ScanNeighbours(Tail(nlist), path, to, max_depth,
                  [st EXCEPT !.visited = st.visited \cup {next_id},
                             !.queue = Append(st.queue, [id |-> next_id, path |-> new_path])])
           ELSE ScanNeighbours(Tail(nlist), path, to, max_depth, st)

\* the locals before the loop; found and path hold the early `return new_path`
PathStart(from) ==
  [ queue |-> <<[id |-> from, path |-> <<>>]>>, visited |-> {from},
    found |-> FALSE, path |-> <<>> ]

\* one iteration of `while queue`: pop the head, `continue` when its path is
\* max_depth long, else scan its neighbours
PathIteration(st, adjacency, to, max_depth) ==
  IF Len(Head(st.queue).path) >= max_depth
  THEN [st EXCEPT !.queue = Tail(st.queue)]
  ELSE ScanNeighbours(Get(adjacency, Head(st.queue).id), Head(st.queue).path, to,
                      max_depth, [st EXCEPT !.queue = Tail(st.queue)])

\* the `while queue` loop of the bounded search
RECURSIVE PathLoop(_, _, _, _)
PathLoop(st, adjacency, to, max_depth) ==
  IF st.found THEN st.path
  ELSE IF st.queue = <<>> THEN <<>>
  ELSE PathLoop(PathIteration(st, adjacency, to, max_depth), adjacency, to, max_depth)

_find_path_through_parents(from, to, parents, max_depth) ==
  IF max_depth <= 0 THEN <<>>
  ELSE PathLoop(PathStart(from), parents, to, max_depth)

_find_path_through_children(from, to, children, max_depth) ==
  IF max_depth <= 0 THEN <<>>
  ELSE PathLoop(PathStart(from), children, to, max_depth)

(***************************************************************************)
(* Blood Relationship Classifier.                                          *)
(***************************************************************************)
\* a (label, path) tuple; NoResult is the Python None a helper returns
Result(label, path) == [label |-> label, path |-> path]

NoResult == [label |-> <<>>, path |-> <<>>]

\* ClosestLoop keeping the first common ancestor it meets
RECURSIVE ClosestLoopFirstMet(_, _, _, _)
ClosestLoopFirstMet(ancestors_from, ancestors_to, i, best) ==
  IF i > Len(ancestors_from) THEN best
  ELSE IF best.closest_common_ancestor = None /\ InMap(ancestors_to, ancestors_from[i].id)
  THEN ClosestLoopFirstMet(ancestors_from, ancestors_to, i + 1,
         [closest_common_ancestor |-> ancestors_from[i].id,
          dist_from |-> ancestors_from[i].d,
          dist_to |-> Dist(ancestors_to, ancestors_from[i].id)])
  ELSE ClosestLoopFirstMet(ancestors_from, ancestors_to, i + 1, best)

\* the loop that keeps the first common ancestor with the least d_from + d_to
RECURSIVE ClosestLoop(_, _, _, _)
ClosestLoop(ancestors_from, ancestors_to, i, best) ==
  IF i > Len(ancestors_from) THEN best
  ELSE LET ancestor_id == ancestors_from[i].id
           d_from == ancestors_from[i].d
       IN  IF InMap(ancestors_to, ancestor_id)
           THEN LET d_to == Dist(ancestors_to, ancestor_id) IN
                IF best.closest_common_ancestor = None
                     \/ (d_from + d_to) < (best.dist_from + best.dist_to)
                THEN ClosestLoop(ancestors_from, ancestors_to, i + 1,
                       [closest_common_ancestor |-> ancestor_id,
                        dist_from |-> d_from, dist_to |-> d_to])
                ELSE ClosestLoop(ancestors_from, ancestors_to, i + 1, best)
           ELSE ClosestLoop(ancestors_from, ancestors_to, i + 1, best)

ClosestCommonAncestor(ancestors_from, ancestors_to) ==
  ClosestLoop(ancestors_from, ancestors_to, 1,
              [closest_common_ancestor |-> None, dist_from |-> 0 - 1, dist_to |-> 0 - 1])

\* the "Nth cousin[, ... removed]" label for a given degree and removal
CousinLabel(cousin_level, removal) ==
  LET ordinal_str == _ordinal(cousin_level) IN
  CASE removal = 0 -> <<ordinal_str, " cousin">>
    [] removal = 1 -> <<ordinal_str, " cousin", ", once removed">>
    [] removal = 2 -> <<ordinal_str, " cousin", ", twice removed">>
    [] OTHER -> <<ordinal_str, " cousin", ", ", ToString(removal), " times removed">>

Min(a, b) == IF a < b THEN a ELSE b

Abs(a) == IF a < 0 THEN 0 - a ELSE a

\* CollateralLabel with the cousin degree taken from the longer line
CollateralLabelLongerLine(dist_from, dist_to) ==
  IF dist_from = 1 /\ dist_to = 1 THEN <<"sibling">>
  ELSE IF dist_from = 1 /\ dist_to > 1
  THEN Times("great-", dist_to - 2) \o <<"aunt/uncle">>
  ELSE IF dist_to = 1 /\ dist_from > 1
  THEN Times("great-", dist_from - 2) \o <<"niece/nephew">>
  ELSE CousinLabel((IF dist_from < dist_to THEN dist_to ELSE dist_from) - 1,
                   Abs(dist_from - dist_to))

\* the label _compute_relationship gives for the distances of the closest
\* common ancestor (<<>> when no branch returns)
CollateralLabel(dist_from, dist_to) ==
  IF dist_from = 1 /\ dist_to = 1 THEN <<"sibling">>
  ELSE IF dist_from = 1 /\ dist_to > 1
  THEN (IF dist_to = 2 THEN <<"aunt/uncle">>
        ELSE Times("great-", dist_to - 2) \o <<"aunt/uncle">>)
  ELSE IF dist_to = 1 /\ dist_from > 1
  THEN (IF dist_from = 2 THEN <<"niece/nephew">>
        ELSE Times("great-", dist_from - 2) \o <<"niece/nephew">>)
  ELSE IF dist_from >= 2 /\ dist_to >= 2
  THEN CousinLabel(Min(dist_from, dist_to) - 1, Abs(dist_from - dist_to))
  ELSE <<>>

\* the same table as written in _compute_basic_blood_relationship
BasicCollateralLabel(dist_from, dist_to) ==
  IF dist_from = 1 /\ dist_to = 1 THEN <<"sibling">>
  ELSE IF dist_from = 1 /\ dist_to > 1
  THEN (IF dist_to = 2 THEN <<"aunt/uncle">>
        ELSE Times("great-", dist_to - 2) \o <<"aunt/uncle">>)
  ELSE IF dist_to = 1 /\ dist_from > 1
  THEN (IF dist_from = 2 THEN <<"niece/nephew">>
        ELSE Times("great-", dist_from - 2) \o <<"niece/nephew">>)
  ELSE IF dist_from >= 2 /\ dist_to >= 2
  THEN CousinLabel(Min(dist_from, dist_to) - 1, Abs(dist_from - dist_to))
  ELSE <<>>

\* the first value that is not None
OrElse(r, otherwise) == IF r # NoResult THEN r ELSE otherwise

\* LinealLabel with one "great-" per generation beyond the parent
LinealLabelExtraGreat(distance, base, grand) ==
  IF distance = 1 THEN <<base>> ELSE Times("great-", distance - 1) \o <<grand>>

\* base, "grand"+base or "great-"...+"grand"+base for a distance of 1, 2, more
LinealLabel(distance, base, grand) ==
  IF distance = 1 THEN <<base>>
  ELSE IF distance = 2 THEN <<grand>>
  ELSE Times("great-", distance - 2) \o <<grand>>

\* the collateral branch, given the closest common ancestor
BasicCollateral(from, to, cca) ==
  IF cca.closest_common_ancestor # None
       /\ BasicCollateralLabel(cca.dist_from, cca.dist_to) # <<>>
  THEN Result(BasicCollateralLabel(cca.dist_from, cca.dist_to),
              <<from, cca.closest_common_ancestor, to>>)
  ELSE NoResult

\* the part of the function that follows the two ancestor maps
BasicFromMaps(from, to, ancestors_from, ancestors_to) ==
  IF InMap(ancestors_from, to)
  THEN Result(LinealLabel(Dist(ancestors_from, to), "parent", "grandparent"), <<from, to>>)
  ELSE IF InMap(ancestors_to, from)
  THEN Result(LinealLabel(Dist(ancestors_to, from), "child", "grandchild"), <<from, to>>)
  ELSE BasicCollateral(from, to, ClosestCommonAncestor(ancestors_from, ancestors_to))

_compute_basic_blood_relationship(from, to, graph) ==
  IF from = to THEN Result(<<"self">>, <<from>>)
  ELSE IF InList(to, Get(graph.children, from)) THEN Result(<<"parent">>, <<from, to>>)
  ELSE IF InList(to, Get(graph.parents, from)) THEN Result(<<"child">>, <<from, to>>)
  ELSE BasicFromMaps(from, to, _get_ancestors_and_distance(from, graph),
                     _get_ancestors_and_distance(to, graph))

(***************************************************************************)
(* In-Law Resolver.                                                        *)
(***************************************************************************)
\* the if/elif chain applied to the blood relationship of a spouse to to_id
SpouseSideRemap(blood_relationship, rel, path, own_child) ==
  IF blood_relationship = NoResult THEN NoResult
  ELSE IF rel = <<"parent">> THEN Result(<<"parent", "-in-law">>, path)
  ELSE IF rel = <<"child">>
  THEN (IF ~ own_child THEN Result(<<"step-", "child">>, path) ELSE NoResult)
  ELSE IF rel = <<"sibling">> THEN Result(<<"sibling", "-in-law">>, path)
  ELSE IF rel = <<"grandparent">> THEN Result(<<"grandparent", "-in-law">>, path)
  ELSE IF rel = <<"grandchild">> THEN Result(<<"grandchild", "-in-law">>, path)
  ELSE IF Contains(rel, "great-") /\ Contains(rel, "grandparent")
  THEN Result(Without(rel, "grandparent") \o <<"grandparent", "-in-law">>, path)
  ELSE IF Contains(rel, "great-") /\ Contains(rel, "grandchild")
  THEN Result(Without(rel, "grandchild") \o <<"grandchild", "-in-law">>, path)
  ELSE IF rel = <<"aunt/uncle">> THEN Result(<<"aunt/uncle", "-in-law">>, path)
  ELSE IF rel = <<"niece/nephew">> THEN Result(<<"niece/nephew", "-in-law">>, path)
  ELSE IF Contains(rel, "great-") /\ Contains(rel, "aunt/uncle")
  THEN Result(Without(rel, "aunt/uncle") \o <<"aunt/uncle", "-in-law">>, path)
  ELSE IF Contains(rel, "great-") /\ Contains(rel, "niece/nephew")
  THEN Result(Without(rel, "niece/nephew") \o <<"niece/nephew", "-in-law">>, path)
  ELSE IF Contains(rel, "cousin") THEN Result(rel \o <<"-in-law">>, path)
  ELSE NoResult

\* the label of a result
LabelOf(r) == r.label

\* SpouseSideInLaw losing the "great-" prefixes of the spouse's relationship
SpouseSideInLawNoGreat(from, spouse_id, to, graph, blood_relationship) ==
  SpouseSideRemap(blood_relationship, Without(LabelOf(blood_relationship), "great-"),
                  <<from, spouse_id, to>>, InList(to, Get(graph.children, from)))

\* one iteration of the loop over from_id's spouses
SpouseSideInLaw(from, spouse_id, to, graph, blood_relationship) ==
  SpouseSideRemap(blood_relationship, LabelOf(blood_relationship), <<from, spouse_id, to>>,
                  InList(to, Get(graph.children, from)))

\* `for spouse_id in spouses.get(from_id, [])`: the first spouse that returns
RECURSIVE SpouseSideLoop(_, _, _, _, _)
SpouseSideLoop(slist, i, from, to, graph) ==
  IF i > Len(slist) THEN NoResult
  ELSE OrElse(SpouseSideInLaw(from, slist[i], to, graph,
                              _compute_basic_blood_relationship(slist[i], to, graph)),
              SpouseSideLoop(slist, i + 1, from, to, graph))

\* the if/elif chain applied to a relative of from_id that to_id is married to
RelativeSideRemap(blood_relationship, rel, path) ==
  IF blood_relationship = NoResult THEN NoResult
  ELSE IF rel = <<"parent">> THEN Result(<<"child", "-in-law">>, path)
  ELSE IF rel = <<"child">> THEN Result(<<"parent", "-in-law">>, path)
  ELSE IF rel = <<"sibling">> THEN Result(<<"sibling", "-in-law">>, path)
  ELSE IF rel = <<"grandparent">> THEN Result(<<"grandchild", "-in-law">>, path)
  ELSE IF rel = <<"grandchild">> THEN Result(<<"grandparent", "-in-law">>, path)
  ELSE IF rel = <<"aunt/uncle">> THEN Result(<<"niece/nephew", "-in-law">>, path)
  ELSE IF rel = <<"niece/nephew">> THEN Result(<<"aunt/uncle", "-in-law">>, path)
  ELSE IF Contains(rel, "cousin") THEN Result(rel \o <<"-in-law">>, path)
  ELSE NoResult

RelativeSideInLaw(from, relative_id, to, blood_relationship) ==
  RelativeSideRemap(blood_relationship, LabelOf(blood_relationship), <<from, relative_id, to>>)

\* `for relative_id in graph["members"].keys()`
RECURSIVE RelativeSideLoop(_, _, _, _)
RelativeSideLoop(i, from, to, graph) ==
  IF i > Len(graph.members) THEN NoResult
  ELSE IF graph.members[i] = from \/ graph.members[i] = to
  THEN RelativeSideLoop(i + 1, from, to, graph)
  ELSE IF InList(to, Get(graph.spouses, graph.members[i]))
  THEN OrElse(RelativeSideInLaw(from, graph.members[i], to,
                 _compute_basic_blood_relationship(from, graph.members[i], graph)),
              RelativeSideLoop(i + 1, from, to, graph))
  ELSE RelativeSideLoop(i + 1, from, to, graph)

\* first element x of list with to_id in adjacency[x] (None when there is none)
FirstWith(list, adjacency, to) ==
  IF \E i \in 1..Len(list) : InList(to, Get(adjacency, list[i]))
  THEN list[CHOOSE i \in 1..Len(list) :
              /\ InList(to, Get(adjacency, list[i]))
              /\ \A j \in 1..(i - 1) : ~ InList(to, Get(adjacency, list[j]))]
  ELSE None

\* Via with a path that stops at the member in between
ViaStopping(via, label, from, to) ==
  IF via # None THEN Result(label, <<from, via>>) ELSE NoResult

\* Result(label, <<from, via, to>>), or None when via is None
Via(via, label, from, to) ==
  IF via # None THEN Result(label, <<from, via, to>>) ELSE NoResult

\* _check_in_law_relationships without the two step tests
_check_in_law_relationships_no_step(from, to, graph) ==
  OrElse(SpouseSideLoop(Get(graph.spouses, from), 1, from, to, graph),
  OrElse(Via(FirstWith(Get(graph.children, from), graph.spouses, to),
             <<"child", "-in-law">>, from, to),
         RelativeSideLoop(1, from, to, graph)))

_check_in_law_relationships(from, to, graph) ==
  OrElse(Via(IF InList(to, Get(graph.parents, from)) THEN None
             ELSE FirstWith(Get(graph.parents, from), graph.spouses, to),
             <<"step-", "parent">>, from, to),
  OrElse(Via(IF InList(from, Get(graph.parents, to)) THEN None
             ELSE FirstWith(Get(graph.parents, to), graph.spouses, from),
             <<"step-", "child">>, from, to),
  OrElse(SpouseSideLoop(Get(graph.spouses, from), 1, from, to, graph),
  OrElse(Via(FirstWith(Get(graph.children, from), graph.spouses, to),
             <<"child", "-in-law">>, from, to),
         RelativeSideLoop(1, from, to, graph)))))

(***************************************************************************)
(* Cultural Relationship Adjuster.                                         *)
(***************************************************************************)
\* re.search(r'(\d+)(?:st|nd|rd|th)\s+cousin', rel): the integer written
\* before the suffix (None when the pattern does not match); a degree is
\* below the number of members
cousin_degree(rel, graph) ==
  LET matches == {n \in 0..Len(graph.members) :
                    \E i \in 1..(Len(rel) - 1) :
                       /\ rel[i + 1] = " cousin"
                       /\ \E suffix \in {"st", "nd", "rd", "th"} :
                             rel[i] = ToString(n) \o suffix}
  IN  IF matches = {} THEN 0 - 1 ELSE CHOOSE n \in matches : TRUE

\* "<ordinal(degree + 1)> <prefix><base>", or None when the pattern did not match
NthLabel(degree, prefix, base, path) ==
  IF degree >= 0 THEN Result(<<_ordinal(degree + 1), " ">> \o prefix \o <<base>>, path)
  ELSE NoResult

\* the if/elif chain of the loop over from_id's parents
ParentCulturalRemap(parent_relationship, rel, path, graph) ==
  IF parent_relationship = NoResult THEN NoResult
  ELSE IF rel = <<"sibling">> THEN Result(<<"aunt/uncle">>, path)
  ELSE IF rel = <<"1st", " cousin">> THEN Result(<<"2nd", " ", "aunt/uncle">>, path)
  ELSE IF rel = <<"2nd", " cousin">> THEN Result(<<"3rd", " ", "aunt/uncle">>, path)
  ELSE IF Contains(rel, "cousin") /\ ~ Contains(rel, "removed")
  THEN NthLabel(cousin_degree(rel, graph), <<>>, "aunt/uncle", path)
  ELSE IF Contains(rel, "cousin") /\ Contains(rel, "removed")
  THEN Result(<<"cousin-aunt/uncle">>, path)
  ELSE NoResult

ParentCultural(from, parent_id, to, graph, parent_relationship) ==
  ParentCulturalRemap(parent_relationship, LabelOf(parent_relationship),
                      <<from, parent_id, to>>, graph)

RECURSIVE ParentCulturalLoop(_, _, _, _, _)
ParentCulturalLoop(plist, i, from, to, graph) ==
  IF i > Len(plist) THEN NoResult
  ELSE OrElse(ParentCultural(from, plist[i], to, graph,
                             _compute_basic_blood_relationship(plist[i], to, graph)),
              ParentCulturalLoop(plist, i + 1, from, to, graph))

\* the if/elif chain of the loop over from_id's ancestors at distance >= 2
AncestorCulturalRemap(ancestor_relationship, rel, distance, path, graph) ==
  IF distance < 2 \/ ancestor_relationship = NoResult THEN NoResult
  ELSE IF distance = 2 /\ rel = <<"sibling">>
  THEN Result(<<"great-", "aunt/uncle">>, path)
  ELSE IF distance > 2 /\ rel = <<"sibling">>
  THEN Result(Times("great-", distance - 1) \o <<"aunt/uncle">>, path)
  ELSE IF distance = 2 /\ rel = <<"1st", " cousin">>
  THEN Result(<<"2nd", " ", "great-", "aunt/uncle">>, path)
  ELSE IF distance > 2 /\ Contains(rel, "cousin") /\ ~ Contains(rel, "removed")
  THEN NthLabel(cousin_degree(rel, graph), Times("great-", distance - 1), "aunt/uncle", path)
  ELSE NoResult

AncestorCultural(from, ancestor_id, distance, to, graph, ancestor_relationship) ==
  AncestorCulturalRemap(ancestor_relationship, LabelOf(ancestor_relationship), distance,
                        <<from, ancestor_id, to>>, graph)

RECURSIVE AncestorCulturalLoop(_, _, _, _, _)
AncestorCulturalLoop(anc, i, from, to, graph) ==
  IF i > Len(anc) THEN NoResult
  ELSE IF anc[i].d < 2 THEN AncestorCulturalLoop(anc, i + 1, from, to, graph)
  ELSE OrElse(AncestorCultural(from, anc[i].id, anc[i].d, to, graph,
                               _compute_basic_blood_relationship(anc[i].id, to, graph)),
              AncestorCulturalLoop(anc, i + 1, from, to, graph))

\* the if/elif chain of the loop over to_id's ancestors (reciprocal forms)
ReverseCulturalRemap(ancestor_relationship, rel, distance, path, graph) ==
  IF ancestor_relationship = NoResult THEN NoResult
  ELSE IF distance = 1 /\ rel = <<"sibling">> THEN Result(<<"niece/nephew">>, path)
  ELSE IF distance = 1 /\ rel = <<"1st", " cousin">>
  THEN Result(<<"2nd", " ", "niece/nephew">>, path)
  ELSE IF distance = 1 /\ Contains(rel, "cousin") /\ ~ Contains(rel, "removed")
  THEN NthLabel(cousin_degree(rel, graph), <<>>, "niece/nephew", path)
  ELSE IF distance >= 2 /\ rel = <<"sibling">>
  THEN Result(Times("great-", distance - 1) \o <<"niece/nephew">>, path)
  ELSE NoResult

ReverseCultural(from, ancestor_id, distance, to, graph, ancestor_relationship) ==
  ReverseCulturalRemap(ancestor_relationship, LabelOf(ancestor_relationship), distance,
                       <<from, ancestor_id, to>>, graph)

RECURSIVE ReverseCulturalLoop(_, _, _, _, _)
ReverseCulturalLoop(anc, i, from, to, graph) ==
  IF i > Len(anc) THEN NoResult
  ELSE OrElse(ReverseCultural(from, anc[i].id, anc[i].d, to, graph,
                              _compute_basic_blood_relationship(from, anc[i].id, graph)),
              ReverseCulturalLoop(anc, i + 1, from, to, graph))

\* is the result a cousin label
IsCousin(r) == r # NoResult /\ Contains(r.label, "cousin")

\* `for spouse_id in spouses.get(from_id, [])` of the cousin-in-law test
RECURSIVE CousinSpouseLoop(_, _, _, _, _)
CousinSpouseLoop(slist, i, from, to, graph) ==
  IF i > Len(slist) THEN NoResult
  ELSE IF IsCousin(_compute_basic_blood_relationship(slist[i], to, graph))
  THEN Result(<<"cousin", "-in-law">>, <<from, slist[i], to>>)
  ELSE CousinSpouseLoop(slist, i + 1, from, to, graph)

\* the closing cousin-in-law test
CousinInLaw(from, to, graph) ==
  IF IsCousin(_compute_basic_blood_relationship(from, to, graph))
  THEN CousinSpouseLoop(Get(graph.spouses, from), 1, from, to, graph)
  ELSE NoResult

_check_cultural_relationships(from, to, graph) ==
  OrElse(ParentCulturalLoop(Get(graph.parents, from), 1, from, to, graph),
  OrElse(AncestorCulturalLoop(_get_ancestors_and_distance(from, graph), 1, from, to, graph),
  OrElse(ReverseCulturalLoop(_get_ancestors_and_distance(to, graph), 1, from, to, graph),
         CousinInLaw(from, to, graph))))

(***************************************************************************)
(* The engine's entry point.                                               *)
(***************************************************************************)
\* is the spouse's ancestor a parent of both the spouse and to_id
SharedParent(entry, to_ancestors) ==
  InMap(to_ancestors, entry.id) /\ entry.d = 1 /\ Dist(to_ancestors, entry.id) = 1

\* `for ancestor_id in spouse_ancestors` of the sibling-in-law test
RECURSIVE SiblingInLawLoop(_, _, _, _, _, _)
SiblingInLawLoop(spouse_ancestors, to_ancestors, i, from, spouse_id, to) ==
  IF i > Len(spouse_ancestors) THEN NoResult
  ELSE IF SharedParent(spouse_ancestors[i], to_ancestors)
  THEN Result(<<"sibling", "-in-law">>, <<from, spouse_id, spouse_ancestors[i].id, to>>)
  ELSE SiblingInLawLoop(spouse_ancestors, to_ancestors, i + 1, from, spouse_id, to)

\* the first loop over from_id's spouses: the result of one iteration
DirectInLaw(from, spouse_id, to, graph) ==
  IF InList(to, Get(graph.parents, spouse_id))
  THEN Result(<<"parent", "-in-law">>, <<from, spouse_id, to>>)
  ELSE IF InList(to, Get(graph.children, spouse_id))
  THEN (IF ~ InList(to, Get(graph.children, from))
        THEN Result(<<"step-", "child">>, <<from, spouse_id, to>>)
        ELSE Result(<<"child">>, <<from, to>>))
  ELSE SiblingInLawLoop(_get_ancestors_and_distance(spouse_id, graph),
                        _get_ancestors_and_distance(to, graph), 1, from, spouse_id, to)

RECURSIVE DirectInLawLoop(_, _, _, _, _)
DirectInLawLoop(slist, i, from, to, graph) ==
  IF i > Len(slist) THEN NoResult
  ELSE OrElse(DirectInLaw(from, slist[i], to, graph),
              DirectInLawLoop(slist, i + 1, from, to, graph))

\* AfterBlood ending without a result when no test matched
AfterBloodNoFallback(from, to, graph) ==
  OrElse(DirectInLawLoop(Get(graph.spouses, from), 1, from, to, graph),
  OrElse(Via(FirstWith(Get(graph.children, from), graph.spouses, to),
             <<"child", "-in-law">>, from, to),
  OrElse(_check_cultural_relationships(from, to, graph),
         _check_in_law_relationships(from, to, graph))))

\* everything after the common-ancestor branches: spouse-side in-laws, the
\* child's spouse, the cultural adjuster, the in-law resolver, then unknown
AfterBlood(from, to, graph) ==
  OrElse(DirectInLawLoop(Get(graph.spouses, from), 1, from, to, graph),
  OrElse(Via(FirstWith(Get(graph.children, from), graph.spouses, to),
             <<"child", "-in-law">>, from, to),
  OrElse(_check_cultural_relationships(from, to, graph),
  OrElse(_check_in_law_relationships(from, to, graph),
         Result(<<"unknown">>, <<from, to>>)))))

\* the passes with the in-law resolver ahead of the cultural adjuster
AfterBloodOrderInLawFirst ==
  <<"spouse's relatives", "child's spouse", "in-law", "cultural">>

\* the passes tried once the blood classifier has found nothing, in the order
\* of the statements that try them
AfterBloodOrder ==
  <<"spouse's relatives", "child's spouse", "cultural", "in-law">>

\* what one of those passes returns
PassResult(pass, from, to, graph) ==
  CASE pass = "spouse's relatives" ->
         DirectInLawLoop(Get(graph.spouses, from), 1, from, to, graph)
    [] pass = "child's spouse" ->
         Via(FirstWith(Get(graph.children, from), graph.spouses, to),
             <<"child", "-in-law">>, from, to)
    [] pass = "cultural" -> _check_cultural_relationships(from, to, graph)
    [] pass = "in-law" -> _check_in_law_relationships(from, to, graph)

\* the i-th pass is tried: every pass before it has returned nothing
PassRuns(i, from, to, graph) ==
  \A j \in 1..(i - 1) : PassResult(AfterBloodOrder[j], from, to, graph) = NoResult

\* Collateral leaving every pair with a common ancestor to the later passes
CollateralSkipped(from, to, graph, cca) == AfterBlood(from, to, graph)

\* the collateral branch, given the closest common ancestor
Collateral(from, to, graph, cca) ==
  IF cca.closest_common_ancestor # None
       /\ CollateralLabel(cca.dist_from, cca.dist_to) # <<>>
  THEN Result(CollateralLabel(cca.dist_from, cca.dist_to),
              <<from, cca.closest_common_ancestor, to>>)
  ELSE AfterBlood(from, to, graph)

\* LinealPath naming the two endpoints only
LinealPathEndpoints(from, to, adjacency, distance, up) == <<from, to>>

\* the path of an ancestor or descendant result at the given distance
LinealPath(from, to, adjacency, distance, up) ==
  IF distance = 1 THEN <<from, to>>
  ELSE IF up THEN <<from>> \o _find_path_through_parents(from, to, adjacency, distance)
  ELSE <<from>> \o _find_path_through_children(from, to, adjacency, distance)

\* the part of the function that follows the two ancestor maps
FromMaps(from, to, graph, ancestors_from, ancestors_to) ==
  IF InMap(ancestors_from, to)
  THEN Result(LinealLabel(Dist(ancestors_from, to), "child", "grandchild"),
              LinealPath(from, to, graph.parents, Dist(ancestors_from, to), TRUE))
  ELSE IF InMap(ancestors_to, from)
  THEN Result(LinealLabel(Dist(ancestors_to, from), "parent", "grandparent"),
              LinealPath(from, to, graph.children, Dist(ancestors_to, from), FALSE))
  ELSE Collateral(from, to, graph, ClosestCommonAncestor(ancestors_from, ancestors_to))

\* _compute_relationship testing the parent-child edges before the spouse edge
_compute_relationship_edges_first(from, to, graph) ==
  IF from = to THEN Result(<<"self">>, <<from>>)
  ELSE IF InList(to, Get(graph.children, from)) THEN Result(<<"parent">>, <<from, to>>)
  ELSE IF InList(to, Get(graph.parents, from)) THEN Result(<<"child">>, <<from, to>>)
  ELSE IF InList(to, Get(graph.spouses, from)) THEN Result(<<"spouse">>, <<from, to>>)
  ELSE FromMaps(from, to, graph, _get_ancestors_and_distance(from, graph),
                _get_ancestors_and_distance(to, graph))

_compute_relationship(from, to, graph) ==
  IF from = to THEN Result(<<"self">>, <<from>>)
  ELSE IF InList(to, Get(graph.spouses, from)) THEN Result(<<"spouse">>, <<from, to>>)
  ELSE IF InList(to, Get(graph.children, from)) THEN Result(<<"parent">>, <<from, to>>)
  ELSE IF InList(to, Get(graph.parents, from)) THEN Result(<<"child">>, <<from, to>>)
  ELSE FromMaps(from, to, graph, _get_ancestors_and_distance(from, graph),
                _get_ancestors_and_distance(to, graph))

(***************************************************************************)
(* Gender Renderer.                                                        *)
(***************************************************************************)
\* str.lower() of one piece of a string: the pieces of the labels are lower
\* case already; of the gender values only the capitalised ones change
lower(word) ==
  CASE word = "Male" -> "male"
    [] word = "Female" -> "female"
    [] OTHER -> word

\* label.lower()
LowerLabel(label) == [i \in DOMAIN label |-> lower(label[i])]

\* label.endswith(tok), for a piece tok the labels end with
EndsWith(label, tok) == label # <<>> /\ label[Len(label)] = tok

\* Gendered with the application's own `man` and `woman` read as male and female
GenderedAppValues(member_gender, male, female, other) ==
  IF member_gender \in {"male", "man"} THEN male
  ELSE IF member_gender \in {"female", "woman"} THEN female
  ELSE other

\* `male if gender == "male" else female if gender == "female" else other`
Gendered(member_gender, male, female, other) ==
  IF member_gender = "male" THEN male
  ELSE IF member_gender = "female" THEN female
  ELSE other

\* the table of the labels matched whole
BaseTable(rel, g, base_relationship) ==
  CASE Str(rel) = "parent" -> Gendered(g, <<"father">>, <<"mother">>, <<"parent">>)
    [] Str(rel) = "child" -> Gendered(g, <<"son">>, <<"daughter">>, <<"child">>)
    [] Str(rel) = "sibling" -> Gendered(g, <<"brother">>, <<"sister">>, <<"sibling">>)
    [] Str(rel) = "half-sibling" ->
         Gendered(g, <<"half-brother">>, <<"half-sister">>, <<"half-sibling">>)
    [] Str(rel) = "grandparent" ->
         Gendered(g, <<"grandfather">>, <<"grandmother">>, <<"grandparent">>)
    [] Str(rel) = "grandchild" ->
         Gendered(g, <<"grandson">>, <<"granddaughter">>, <<"grandchild">>)
    [] Str(rel) = "aunt/uncle" -> Gendered(g, <<"uncle">>, <<"aunt">>, <<"aunt/uncle">>)
    [] Str(rel) = "niece/nephew" -> Gendered(g, <<"nephew">>, <<"niece">>, <<"niece/nephew">>)
    [] Str(rel) = "cousin-aunt/uncle" ->
         Gendered(g, <<"cousin-uncle">>, <<"cousin-aunt">>, <<"cousin-aunt/uncle">>)
    [] Str(rel) = "cousin-niece/nephew" ->
         Gendered(g, <<"cousin-nephew">>, <<"cousin-niece">>, <<"cousin-niece/nephew">>)
    [] OTHER -> base_relationship

BaseWords ==
  {"parent", "child", "sibling", "half-sibling", "grandparent", "grandchild", "aunt/uncle",
   "niece/nephew", "cousin-aunt/uncle", "cousin-niece/nephew"}

\* the branch of the labels holding "great-": the ending is regendered behind
\* the rest of the label; a label with another ending falls out of the chain
GreatRule(rel, g, base_relationship) ==
  IF EndsWith(rel, "grandparent")
  THEN Gendered(g, Without(rel, "grandparent") \o <<"grandfather">>,
                Without(rel, "grandparent") \o <<"grandmother">>, rel)
  ELSE IF EndsWith(rel, "grandchild")
  THEN Gendered(g, Without(rel, "grandchild") \o <<"grandson">>,
                Without(rel, "grandchild") \o <<"granddaughter">>, rel)
  ELSE IF EndsWith(rel, "aunt/uncle")
  THEN Gendered(g, Without(rel, "aunt/uncle") \o <<"uncle">>,
                Without(rel, "aunt/uncle") \o <<"aunt">>, rel)
  ELSE IF EndsWith(rel, "niece/nephew")
  THEN Gendered(g, Without(rel, "niece/nephew") \o <<"nephew">>,
                Without(rel, "niece/nephew") \o <<"niece">>, rel)
  ELSE base_relationship

\* the branch of the labels holding "-in-law"
InLawRule(rel, g, base_relationship) ==
  IF Contains(rel, "parent")
  THEN Gendered(g, <<"father", "-in-law">>, <<"mother", "-in-law">>, rel)
  ELSE IF Contains(rel, "child")
  THEN Gendered(g, <<"son", "-in-law">>, <<"daughter", "-in-law">>, rel)
  ELSE IF Contains(rel, "sibling")
  THEN Gendered(g, <<"brother", "-in-law">>, <<"sister", "-in-law">>, rel)
  ELSE IF Contains(rel, "grandparent")
  THEN Gendered(g, <<"grandfather", "-in-law">>, <<"grandmother", "-in-law">>, rel)
  ELSE IF Contains(rel, "aunt") \/ Contains(rel, "uncle")
  THEN Gendered(g, <<"uncle", "-in-law">>, <<"aunt", "-in-law">>, rel)
  ELSE base_relationship

\* the branch of the labels holding "step-"
StepRule(rel, g, base_relationship) ==
  IF Contains(rel, "parent")
  THEN Gendered(g, <<"step-", "father">>, <<"step-", "mother">>, rel)
  ELSE IF Contains(rel, "child")
  THEN Gendered(g, <<"step-", "son">>, <<"step-", "daughter">>, rel)
  ELSE IF Contains(rel, "sibling")
  THEN Gendered(g, <<"step-", "brother">>, <<"step-", "sister">>, rel)
  ELSE base_relationship

\* the if/elif chain on the lowered label and gender
RenderChain(rel, g, base_relationship) ==
  IF Str(rel) \in BaseWords THEN BaseTable(rel, g, base_relationship)
  ELSE IF Contains(rel, "great-") THEN GreatRule(rel, g, base_relationship)
  ELSE IF Contains(rel, "-in-law") THEN InLawRule(rel, g, base_relationship)
  ELSE IF Contains(rel, "step-") THEN StepRule(rel, g, base_relationship)
  ELSE base_relationship

\* member is the row of the subject: its gender is "" when missing
_get_gender_specific_relationship(base_relationship, member) ==
  IF member.gender = "" THEN base_relationship
  ELSE RenderChain(LowerLabel(base_relationship), lower(member.gender), base_relationship)

(***************************************************************************)
(* The stored snapshot and the queries against it.                         *)
(***************************************************************************)
Row(type, a, b) == [type |-> type, a |-> a, b |-> b]

\* parent-child rows of a line of descent first -> first+1 -> ... of n rows
\* hanging below member top
RECURSIVE Line(_, _, _)
Line(top, first, n) ==
  IF n = 0 THEN <<>>
  ELSE <<Row("parent-child", top, first)>> \o Line(first, first + 1, n - 1)

\* a founder (member 1) with two lines of descent of a and b generations
Family(a, b) == Line(1, 2, a) \o Line(1, 2 + a, b)

MemberRows(n) == [i \in 1..n |-> i]

\* ids a query may name: the members and one id that is in no row
QueryIds == 1..(Len(members) + 1)

\* no search is running
NoSearch == [queue |-> <<>>]

\* no graph is built: no query is running
NoGraph == [members |-> <<>>, spouses |-> <<>>, parents |-> <<>>, children |-> <<>>]

\* no formatter is running
NoFormatting == gender = "" /\ gendered = <<>> /\ level = 0 /\ ordinal = ""

\* TreeSettings(): the settings of a tree that stores none
DefaultSettings ==
  [allow_same_sex |-> TRUE,
   monogamy |-> TRUE,
   allow_polygamy |-> FALSE,
   max_spouses_per_member |-> None,
   allow_single_parent |-> TRUE,
   allow_multi_parent_children |-> FALSE,
   max_parents_per_child |-> 2]

\* no request has been handled, and the member rows store no gender
NoAdministration ==
  settings = DefaultSettings /\ status = 0 /\ requests = <<>> /\ genders = <<>>

Init ==
  /\ \E a \in 0..MaxDepth, b \in 0..MaxDepth :
        /\ a + b <= MaxSeedRels
        /\ members = MemberRows(1 + a + b)
        /\ rels = Family(a, b)
  /\ created = 0
  /\ inserted = 0
  /\ pc = "idle"
  /\ from_id = None
  /\ to_id = None
  /\ result = NoResult
  /\ built = NoGraph
  /\ maps = <<>>
  /\ turn = 0
  /\ bfs = NoSearch
  /\ walk = NoSearch
  /\ NoFormatting
  /\ NoAdministration

\* a member row is stored
CreateMember ==
  /\ pc = "idle"
  /\ created < MaxNewMembers
  /\ members' = Append(members, Len(members) + 1)
  /\ created' = created + 1
  /\ UNCHANGED <<administration, formatting, rels, inserted, pc, from_id, to_id, result, traversal>>

\* a relationship row between two members is stored, unvalidated
AddRelationshipRow(type, a, b) ==
  /\ pc = "idle"
  /\ inserted < MaxExtraRels
  /\ Len(rels) < MaxRels
  /\ rels' = Append(rels, Row(type, a, b))
  /\ inserted' = inserted + 1
  /\ UNCHANGED <<administration, formatting, members, created, pc, from_id, to_id, result, traversal>>

AddSpouseRow == \E a \in Range(members), b \in Range(members) : AddRelationshipRow("spouse", a, b)

AddParentChildRow ==
  \E a \in Range(members), b \in Range(members) : AddRelationshipRow("parent-child", a, b)

\* a query: the graph is built from the snapshot and the engine is asked
\* about (f, t)
ComputeRelationship ==
  /\ pc = "idle"
  /\ \E f \in QueryIds, t \in QueryIds :
        /\ from_id' = f
        /\ to_id' = t
        /\ result' = _compute_relationship(f, t, _build_relationship_graph(members, rels))
  /\ pc' = "answered"
  /\ UNCHANGED <<administration, formatting, members, rels, created, inserted, traversal>>

\* the answer is returned; the graph and the result are discarded with the
\* request
Return ==
  /\ pc = "answered"
  /\ pc' = "idle"
  /\ from_id' = None
  /\ to_id' = None
  /\ result' = NoResult
  /\ UNCHANGED <<administration, formatting, members, rels, created, inserted, traversal>>

Next == CreateMember \/ AddSpouseRow \/ AddParentChildRow \/ ComputeRelationship \/ Return

Spec == Init /\ [][Next]_vars

(***************************************************************************)
(* One query taken loop iteration by loop iteration, on snapshots whose    *)
(* rows were stored unvalidated: any rows between the members, self-edges  *)
(* and parent cycles included.                                             *)
(***************************************************************************)
\* members of such a snapshot
MaxLoopMembers == 3
\* rows of such a snapshot
MaxLoopRels == 3
\* spouse rows among them
MaxLoopSpouseRows == 1

AnyRows(n) == {Row(type, a, b) : type \in {"parent-child", "spouse"}, a \in 1..n, b \in 1..n}

SeqsUpTo(S, k) == UNION {[1..m -> S] : m \in 0..k}

SpouseRows(rows) == Cardinality({i \in 1..Len(rows) : rows[i].type = "spouse"})

InitTraversal ==
  /\ \E n \in 1..MaxLoopMembers :
        /\ members = MemberRows(n)
        /\ rels \in {rows \in SeqsUpTo(AnyRows(n), MaxLoopRels) :
                       SpouseRows(rows) <= MaxLoopSpouseRows}
  /\ created = 0
  /\ inserted = 0
  /\ pc = "idle"
  /\ from_id = None
  /\ to_id = None
  /\ result = NoResult
  /\ built = NoGraph
  /\ maps = <<>>
  /\ turn = 0
  /\ bfs = NoSearch
  /\ walk = NoSearch
  /\ NoFormatting
  /\ NoAdministration

\* the tests that return before any search: self, spouse, parent, child
Direct(from, to, g) ==
  \/ from = to
  \/ InList(to, Get(g.spouses, from))
  \/ InList(to, Get(g.children, from))
  \/ InList(to, Get(g.parents, from))

\* the members whose ancestors the running phase collects, in order: from_id
\* and to_id first; the members the in-law and cultural passes may expand
\* (spouses, parents, ancestors, every key of graph["members"]) afterwards
Order == IF pc = "ancestors" THEN <<from_id, to_id>> ELSE members

\* the direct tests on the graph just built, then the first ancestor search
Enter(f, t, g) ==
  /\ built' = g
  /\ IF Direct(f, t, g)
     THEN pc' = "returning" /\ turn' = 0 /\ bfs' = NoSearch
     ELSE pc' = "ancestors" /\ turn' = 1 /\ bfs' = AncestorStart(f)

\* the query starts: the graph is built once from the snapshot
StartQuery ==
  /\ pc = "idle"
  /\ \E f \in Range(members), t \in Range(members) :
        /\ from_id' = f
        /\ to_id' = t
        /\ Enter(f, t, _build_relationship_graph(members, rels))
  /\ UNCHANGED <<administration, formatting, members, rels, created, inserted, result, maps, walk>>

\* one iteration of the `while queue` loop of _get_ancestors_and_distance;
\* the ancestor dict is capped just above the number of members
AncestorStep ==
  /\ pc \in {"ancestors", "passes"}
  /\ bfs.queue # <<>>
  /\ Len(bfs.ancestors) <= Len(members)
  /\ bfs' = AncestorIteration(bfs, built.parents)
  /\ UNCHANGED <<administration, formatting, members, rels, created, inserted, pc, from_id, to_id, result,
                 built, maps, turn, walk>>

\* _get_ancestors_and_distance returned and is called for the next member
NextMember ==
  /\ pc \in {"ancestors", "passes"}
  /\ bfs.queue = <<>>
  /\ turn < Len(Order)
  /\ maps' = Append(maps, bfs.ancestors)
  /\ turn' = turn + 1
  /\ bfs' = AncestorStart(Order[turn + 1])
  /\ UNCHANGED <<administration, formatting, members, rels, created, inserted, pc, from_id, to_id, result, built, walk>>

\* both ancestor maps are there: an ancestor or descendant further than one
\* generation away starts the path search, a nearer one or a common ancestor
\* returns, anything else goes on to the in-law and cultural passes
Branch(ancestors_from, ancestors_to) ==
  /\ maps' = <<ancestors_from, ancestors_to>>
  /\ IF InMap(ancestors_from, to_id) \/ InMap(ancestors_to, from_id)
     THEN IF (IF InMap(ancestors_from, to_id) THEN Dist(ancestors_from, to_id)
              ELSE Dist(ancestors_to, from_id)) > 1
          THEN pc' = "path" /\ walk' = PathStart(from_id) /\ UNCHANGED <<turn, bfs>>
          ELSE pc' = "returning" /\ UNCHANGED <<turn, bfs, walk>>
     ELSE IF ClosestCommonAncestor(ancestors_from, ancestors_to).closest_common_ancestor # None
     THEN pc' = "returning" /\ UNCHANGED <<turn, bfs, walk>>
     ELSE pc' = "passes" /\ turn' = 1 /\ bfs' = AncestorStart(members[1]) /\ UNCHANGED walk

Classify ==
  /\ pc = "ancestors"
  /\ bfs.queue = <<>>
  /\ turn = Len(Order)
  /\ Branch(maps[1], bfs.ancestors)
  /\ UNCHANGED <<administration, formatting, members, rels, created, inserted, from_id, to_id, result, built>>

\* one iteration of the `while queue` loop of the path search: through the
\* parents up to to_id when it is an ancestor of from_id, else through the
\* children down to it
WalkIteration(ancestors_from, ancestors_to) ==
  IF InMap(ancestors_from, to_id)
  THEN PathIteration(walk, built.parents, to_id, Dist(ancestors_from, to_id))
  ELSE PathIteration(walk, built.children, to_id, Dist(ancestors_to, from_id))

WalkStep ==
  /\ pc = "path"
  /\ walk.queue # <<>>
  /\ ~ walk.found
  /\ walk' = WalkIteration(maps[1], maps[2])
  /\ UNCHANGED <<administration, formatting, members, rels, created, inserted, pc, from_id, to_id, result,
                 built, maps, turn, bfs>>

\* every loop of the query has ended
Done ==
  \/ pc = "returning"
  \/ pc = "path" /\ (walk.queue = <<>> \/ walk.found)
  \/ pc = "passes" /\ bfs.queue = <<>> /\ turn = Len(Order)

\* the label and the path are returned
Finish ==
  /\ Done
  /\ result' = _compute_relationship(from_id, to_id, built)
  /\ pc' = "answered"
  /\ built' = NoGraph
  /\ maps' = <<>>
  /\ turn' = 0
  /\ bfs' = NoSearch
  /\ walk' = NoSearch
  /\ UNCHANGED <<administration, formatting, members, rels, created, inserted, from_id, to_id>>

\* the steps inside the loops of a query
Loops == AncestorStep \/ NextMember \/ Classify \/ WalkStep

NextTraversal == StartQuery \/ Loops \/ Finish

\* a loop that can take another step takes it: the call keeps executing
SpecTraversal == InitTraversal /\ [][NextTraversal]_vars /\ WF_vars(Loops)

(***************************************************************************)
(* The graph builder alone, on snapshots whose rows may name ids that are  *)
(* no member of the tree (the row's foreign keys point at the members      *)
(* table, not at the members of the row's tree).                           *)
(***************************************************************************)
\* members of such a snapshot
MaxSnapshotMembers == 2
\* rows of such a snapshot
MaxSnapshotRels == 3

\* rows between the members and one id that is no member
LooseRows(n) ==
  {Row(type, a, b) : type \in {"parent-child", "spouse"}, a \in 1..(n + 1), b \in 1..(n + 1)}

InitSnapshot ==
  /\ \E n \in 1..MaxSnapshotMembers :
        /\ members = MemberRows(n)
        /\ rels \in SeqsUpTo(LooseRows(n), MaxSnapshotRels)
  /\ created = 0
  /\ inserted = 0
  /\ pc = "idle"
  /\ from_id = None
  /\ to_id = None
  /\ result = NoResult
  /\ built = NoGraph
  /\ maps = <<>>
  /\ turn = 0
  /\ bfs = NoSearch
  /\ walk = NoSearch
  /\ NoFormatting
  /\ NoAdministration

\* _build_relationship_graph is called: the adjacency dicts have the members
\* as keys, and `spouses[rel.a_member_id]`, `children[rel.a_member_id]`,
\* `parents[rel.b_member_id]` raise KeyError on any other id
BuildGraph ==
  /\ pc = "idle"
  /\ IF Dangling(members, rels)
     THEN pc' = "KeyError" /\ built' = NoGraph
     ELSE pc' = "built" /\ built' = _build_relationship_graph(members, rels)
  /\ UNCHANGED <<administration, formatting, members, rels, created, inserted, from_id, to_id, result,
                 maps, turn, bfs, walk>>

NextSnapshot == BuildGraph

SpecSnapshot == InitSnapshot /\ [][NextSnapshot]_vars

(***************************************************************************)
(* The gender renderer alone: the endpoint passes the label just computed  *)
(* and the row of from_member through it.                                  *)
(***************************************************************************)
\* longest generation distance behind a label that is rendered
MaxLabelDistance == 4

\* the labels of the blood classifier
BloodLabels ==
  {LinealLabel(d, "parent", "grandparent") : d \in 1..MaxLabelDistance}
    \cup {LinealLabel(d, "child", "grandchild") : d \in 1..MaxLabelDistance}
    \cup {CollateralLabel(df, dt) : df \in 1..MaxLabelDistance, dt \in 1..MaxLabelDistance}

\* the labels of the in-law resolver and of the in-law tests of the entry point
InLawLabels ==
  {LabelOf(SpouseSideRemap(Result(rel, <<>>), rel, <<>>, own_child)) :
      rel \in BloodLabels, own_child \in BOOLEAN}
    \cup {LabelOf(RelativeSideRemap(Result(rel, <<>>), rel, <<>>)) : rel \in BloodLabels}
    \cup {<<"step-", "parent">>, <<"step-", "child">>, <<"child", "-in-law">>,
          <<"parent", "-in-law">>, <<"sibling", "-in-law">>, <<"cousin", "-in-law">>}

\* the labels of the cultural adjuster
CulturalLabels ==
  LET graph == [members |-> MemberRows(2 * MaxLabelDistance)] IN
  {LabelOf(ParentCulturalRemap(Result(rel, <<>>), rel, <<>>, graph)) : rel \in BloodLabels}
    \cup {LabelOf(AncestorCulturalRemap(Result(rel, <<>>), rel, d, <<>>, graph)) :
            rel \in BloodLabels, d \in 1..MaxLabelDistance}
    \cup {LabelOf(ReverseCulturalRemap(Result(rel, <<>>), rel, d, <<>>, graph)) :
            rel \in BloodLabels, d \in 1..MaxLabelDistance}

\* every label _compute_relationship returns
EngineLabels ==
  ({<<"self">>, <<"spouse">>, <<"unknown">>} \cup BloodLabels \cup InLawLabels
     \cup CulturalLabels) \ {<<>>}

\* Member.gender: missing (None or ""), the values the renderer knows in
\* either letter case, and values of GENDER_OPTIONS
Genders == {"", "male", "female", "Male", "Female", "woman", "man", "non-binary", "agender"}

InitRender ==
  /\ members = MemberRows(1)
  /\ rels = <<>>
  /\ created = 0
  /\ inserted = 0
  /\ pc = "answered"
  /\ from_id = 1
  /\ to_id = 1
  /\ \E relationship_label \in EngineLabels : result = Result(relationship_label, <<>>)
  /\ built = NoGraph
  /\ maps = <<>>
  /\ turn = 0
  /\ bfs = NoSearch
  /\ walk = NoSearch
  /\ gender \in Genders
  /\ gendered = <<>>
  /\ level = 0
  /\ ordinal = ""
  /\ NoAdministration

\* gender_specific_relationship =
\*   _get_gender_specific_relationship(relationship_label, from_member_obj)
Render ==
  /\ pc = "answered"
  /\ gendered' = _get_gender_specific_relationship(result.label, [gender |-> gender])
  /\ pc' = "rendered"
  /\ UNCHANGED <<administration, members, rels, created, inserted, from_id, to_id,
                 result, traversal, gender, level, ordinal>>

NextRender == Render

SpecRender == InitRender /\ [][NextRender]_vars

(***************************************************************************)
(* The ordinal formatter alone.                                            *)
(***************************************************************************)
\* largest number formatted
MaxOrdinal == 230

InitOrdinal ==
  /\ members = MemberRows(1)
  /\ rels = <<>>
  /\ created = 0
  /\ inserted = 0
  /\ pc = "idle"
  /\ from_id = None
  /\ to_id = None
  /\ result = NoResult
  /\ built = NoGraph
  /\ maps = <<>>
  /\ turn = 0
  /\ bfs = NoSearch
  /\ walk = NoSearch
  /\ gender = ""
  /\ gendered = <<>>
  /\ level \in 1..MaxOrdinal
  /\ ordinal = ""
  /\ NoAdministration

\* ordinal_str = _ordinal(cousin_level)
FormatOrdinal ==
  /\ pc = "idle"
  /\ ordinal' = _ordinal(level)
  /\ pc' = "formatted"
  /\ UNCHANGED <<administration, members, rels, created, inserted, from_id, to_id,
                 result, traversal, gender, gendered, level>>

NextOrdinal == FormatOrdinal

SpecOrdinal == InitOrdinal /\ [][NextOrdinal]_vars

(***************************************************************************)
(* One family stored in every order: db.query(...).all() carries no        *)
(* ORDER BY, so the member rows and the relationship rows of a tree reach  *)
(* the builder in any order.                                               *)
(***************************************************************************)
\* members 1 and 3 are the parents of 4; 1 is also a grandparent of 5 through
\* 2, and 2 a grandparent of 4 through 3: for (4, 5) the common ancestors 1
\* and 2 both have a sum of three generations
CrossedFamily ==
  <<Row("parent-child", 1, 4), Row("parent-child", 3, 4), Row("parent-child", 1, 2),
    Row("parent-child", 2, 5), Row("parent-child", 2, 3)>>

\* two parents 1 and 2 with the children 3 and 4
TwoParentFamily ==
  <<Row("parent-child", 1, 3), Row("parent-child", 2, 3), Row("parent-child", 1, 4),
    Row("parent-child", 2, 4)>>

\* the members named by a list of rows
MembersOf(rows) == UNION {{rows[i].a, rows[i].b} : i \in 1..Len(rows)}

\* the lists holding the elements of s in some order
Orderings(s) == {[i \in 1..Len(s) |-> s[p[i]]] : p \in Permutations(1..Len(s))}

InitOrder ==
  /\ \E family \in {CrossedFamily, TwoParentFamily} :
        /\ members \in Orderings(MemberRows(Cardinality(MembersOf(family))))
        /\ rels \in Orderings(family)
  /\ created = 0
  /\ inserted = 0
  /\ pc = "idle"
  /\ from_id = None
  /\ to_id = None
  /\ result = NoResult
  /\ built = NoGraph
  /\ maps = <<>>
  /\ turn = 0
  /\ bfs = NoSearch
  /\ walk = NoSearch
  /\ NoFormatting
  /\ NoAdministration

\* a query between two members of the family
QueryMembers ==
  /\ pc = "idle"
  /\ \E f \in Range(members), t \in Range(members) :
        /\ from_id' = f
        /\ to_id' = t
        /\ result' = _compute_relationship(f, t, _build_relationship_graph(members, rels))
  /\ pc' = "answered"
  /\ UNCHANGED <<administration, formatting, members, rels, created, inserted, traversal>>

NextOrder == QueryMembers \/ Return

SpecOrder == InitOrder /\ [][NextOrder]_vars

(***************************************************************************)
(* A household around a remarried parent: member 1 is a parent of 2 and a  *)
(* spouse of 3; further rows between the members are stored one by one,    *)
(* and members are asked about the spouses of their parents.               *)
(***************************************************************************)
\* members of the household
MaxHouseholdMembers == 5
\* rows stored after the two rows of the household
MaxHouseholdRows == 3

StepHousehold == <<Row("parent-child", 1, 2), Row("spouse", 1, 3)>>

\* one row per couple and any parent-child row between two members
HouseholdRows(n) ==
  {Row("spouse", a, b) : a \in 1..n, b \in 1..n} \cup
  {Row("parent-child", a, b) : a \in 1..n, b \in 1..n}

InitHousehold ==
  /\ members = MemberRows(MaxHouseholdMembers)
  /\ rels \in Orderings(StepHousehold)
  /\ created = 0
  /\ inserted = 0
  /\ pc = "idle"
  /\ from_id = None
  /\ to_id = None
  /\ result = NoResult
  /\ built = NoGraph
  /\ maps = <<>>
  /\ turn = 0
  /\ bfs = NoSearch
  /\ walk = NoSearch
  /\ NoFormatting
  /\ NoAdministration

\* a row between two different members is stored
StoreRow ==
  /\ pc = "idle"
  /\ inserted < MaxHouseholdRows
  /\ \E r \in HouseholdRows(Len(members)) :
        /\ r.a # r.b
        /\ r.type = "spouse" => r.a < r.b
        /\ rels' = Append(rels, r)
  /\ inserted' = inserted + 1
  /\ UNCHANGED <<administration, formatting, members, created, pc, from_id, to_id, result, traversal>>

\* t is married to a parent of f
ParentsSpouse(f, t, graph) ==
  \E i \in 1..Len(Get(graph.parents, f)) :
     InList(t, Get(graph.spouses, Get(graph.parents, f)[i]))

\* a query between a member and a spouse of one of its parents, either way
QueryStep ==
  /\ pc = "idle"
  /\ \E f \in Range(members), t \in Range(members) :
        /\ f # t
        /\ LET graph == _build_relationship_graph(members, rels) IN
             /\ ParentsSpouse(f, t, graph) \/ ParentsSpouse(t, f, graph)
             /\ result' = _compute_relationship(f, t, graph)
        /\ from_id' = f
        /\ to_id' = t
  /\ pc' = "answered"
  /\ UNCHANGED <<administration, formatting, members, rels, created, inserted, traversal>>

NextHousehold == StoreRow \/ QueryStep \/ Return

SpecHousehold == InitHousehold /\ [][NextHousehold]_vars

(***************************************************************************)
(* Spouse management (add_spouse, remove_spouse) and the settings of the   *)
(* tree (update_tree), one request at a time, by a custodian of the tree.  *)
(* Every member row belongs to the one tree.  `requests` holds the request *)
(* answered last, `status` the HTTP status of its response.                *)
(***************************************************************************)
\* members of the tree
MaxTreeMembers == 3

\* the rows of type spouse naming member_id, on the b side only
_get_spouse_count_b_side(member_id, rows) ==
  Cardinality({i \in 1..Len(rows) : rows[i].type = "spouse" /\ rows[i].b = member_id})

\* count of the rows of type spouse with member_id on either side
_get_spouse_count(member_id, rows) ==
  Cardinality({i \in 1..Len(rows) :
                 /\ rows[i].type = "spouse"
                 /\ (rows[i].a = member_id \/ rows[i].b = member_id)})

\* a row of the type between the two members, in either direction
_relationship_exists(member_a_id, member_b_id, rel_type, rows) ==
  \E i \in 1..Len(rows) :
     /\ rows[i].type = rel_type
     /\ \/ rows[i].a = member_a_id /\ rows[i].b = member_b_id
        \/ rows[i].a = member_b_id /\ rows[i].b = member_a_id

\* db.query(Member).filter(Member.id == id).first() finds a row
MemberExists(id) == InList(id, members)

\* Member.gender of a member row
GenderOf(id) == genders[CHOOSE i \in 1..Len(members) : members[i] = id]

\* the first part of add_spouse: the lookups of both members, the self test
\* and the duplicate check; the status of the HTTPException raised, or None
AddSpouseLookups(id, spouse_id, rows) ==
  IF ~ MemberExists(id) THEN 404
  ELSE IF ~ MemberExists(spouse_id) THEN 404
  ELSE IF id = spouse_id THEN 400
  ELSE IF _relationship_exists(id, spouse_id, "spouse", rows) THEN 409
  ELSE None

\* the second part of add_spouse: the monogamy, max-spouses and same-sex
\* validations; 400 when one of them raises, 201 when the row may be created
AddSpouseValidations(id, spouse_id, rows) ==
  IF /\ settings.monogamy
     /\ \/ _get_spouse_count(id, rows) >= 1
        \/ _get_spouse_count(spouse_id, rows) >= 1
  THEN 400
  ELSE IF /\ settings.max_spouses_per_member # None
          /\ \/ _get_spouse_count(id, rows) >= settings.max_spouses_per_member
             \/ _get_spouse_count(spouse_id, rows) >= settings.max_spouses_per_member
       THEN 400
  ELSE IF /\ ~ settings.allow_same_sex
          /\ GenderOf(id) # "" /\ GenderOf(spouse_id) # ""
          /\ GenderOf(id) = GenderOf(spouse_id)
       THEN 400
  ELSE 201

\* the status add_spouse answers with on the stored rows: 201 when the row is
\* created, otherwise the status of the first HTTPException raised
AddSpouseStatus(id, spouse_id, rows) ==
  IF AddSpouseLookups(id, spouse_id, rows) # None
    THEN AddSpouseLookups(id, spouse_id, rows)
    ELSE AddSpouseValidations(id, spouse_id, rows)

\* the request answered last: its path and query parameters and its settings
\* body, TreeSettings() when it has none
Request(op, id, other, body) == <<[op |-> op, id |-> id, other |-> other, body |-> body]>>

\* POST /members/{id}/spouse?spouse_id=
add_spouse ==
  /\ pc = "idle"
  /\ \E id \in QueryIds, spouse_id \in QueryIds :
        /\ status' = AddSpouseStatus(id, spouse_id, rels)
        /\ rels' = IF status' = 201
                     THEN Append(rels, Row("spouse", id, spouse_id))
                     ELSE rels
        /\ requests' = Request("add_spouse", id, spouse_id, DefaultSettings)
  /\ UNCHANGED <<formatting, members, created, inserted, pc, from_id, to_id, result,
                 traversal, settings, genders>>

\* the sequence without its i-th element
Delete(rows, i) == SubSeq(rows, 1, i - 1) \o SubSeq(rows, i + 1, Len(rows))

\* the spouse rows between the two members, in either direction
SpouseRowsBetween(id, spouseId) ==
  {i \in 1..Len(rels) :
     /\ rels[i].type = "spouse"
     /\ \/ rels[i].a = id /\ rels[i].b = spouseId
        \/ rels[i].a = spouseId /\ rels[i].b = id}

\* DELETE /members/{id}/spouse/{spouseId}; .first() has no ORDER BY, so any
\* one of the matching rows is the one deleted
remove_spouse ==
  /\ pc = "idle"
  /\ \E id \in QueryIds, spouseId \in QueryIds :
        /\ requests' = Request("remove_spouse", id, spouseId, DefaultSettings)
        /\ IF ~ MemberExists(id) \/ ~ MemberExists(spouseId)
              \/ SpouseRowsBetween(id, spouseId) = {}
             THEN status' = 404 /\ rels' = rels
             ELSE /\ status' = 204
                  /\ \E i \in SpouseRowsBetween(id, spouseId) : rels' = Delete(rels, i)
  /\ UNCHANGED <<formatting, members, created, inserted, pc, from_id, to_id, result,
                 traversal, settings, genders>>

\* spouse_counts of _check_monogamy_violations and _check_max_spouses_violations:
\* a row counts once for its a side and once for its b side
SpouseCounts(id, rows) ==
  Cardinality({i \in 1..Len(rows) : rows[i].type = "spouse" /\ rows[i].a = id})
    + Cardinality({i \in 1..Len(rows) : rows[i].type = "spouse" /\ rows[i].b = id})

\* parent_counts of the three parent checks
ParentCounts(id, rows) ==
  Cardinality({i \in 1..Len(rows) : rows[i].type = "parent-child" /\ rows[i].b = id})

\* members with more than one spouse
_check_monogamy_violations(member_rows, rows) ==
  {id \in Range(member_rows) : SpouseCounts(id, rows) > 1}

\* members with more than max_spouses spouses
_check_max_spouses_violations(member_rows, rows, max_spouses) ==
  {id \in Range(member_rows) : SpouseCounts(id, rows) > max_spouses}

\* spouse rows between two members whose genders are stored and equal up to
\* letter case
_check_same_sex_violations(member_rows, rows) ==
  {i \in 1..Len(rows) :
     /\ rows[i].type = "spouse"
     /\ InList(rows[i].a, member_rows) /\ InList(rows[i].b, member_rows)
     /\ GenderOf(rows[i].a) # "" /\ GenderOf(rows[i].b) # ""
     /\ lower(GenderOf(rows[i].a)) = lower(GenderOf(rows[i].b))}

\* children with exactly one parent
_check_single_parent_violations(member_rows, rows) ==
  {id \in Range(member_rows) : ParentCounts(id, rows) = 1}

\* children with more than two parents
_check_multi_parent_violations(member_rows, rows) ==
  {id \in Range(member_rows) : ParentCounts(id, rows) > 2}

\* children with more than max_parents parents
_check_max_parents_violations(member_rows, rows, max_parents) ==
  {id \in Range(member_rows) : ParentCounts(id, rows) > max_parents}

\* is_valid of validate_settings_change: none of its six checks finds a
\* violation among the stored rows
validate_settings_change(member_rows, rows, current_settings, new_settings) ==
  \/ member_rows = <<>>
  \/ /\ (new_settings.monogamy /\ ~ current_settings.monogamy)
          => _check_monogamy_violations(member_rows, rows) = {}
     /\ (/\ new_settings.max_spouses_per_member # None
         /\ \/ current_settings.max_spouses_per_member = None
            \/ new_settings.max_spouses_per_member
                 < current_settings.max_spouses_per_member)
          => _check_max_spouses_violations(member_rows, rows,
                                           new_settings.max_spouses_per_member) = {}
     /\ (~ new_settings.allow_same_sex /\ current_settings.allow_same_sex)
          => _check_same_sex_violations(member_rows, rows) = {}
     /\ (~ new_settings.allow_single_parent /\ current_settings.allow_single_parent)
          => _check_single_parent_violations(member_rows, rows) = {}
     /\ (/\ ~ new_settings.allow_multi_parent_children
         /\ current_settings.allow_multi_parent_children)
          => _check_multi_parent_violations(member_rows, rows) = {}
     /\ (/\ new_settings.max_parents_per_child # None
         /\ \/ current_settings.max_parents_per_child = None
            \/ new_settings.max_parents_per_child
                 < current_settings.max_parents_per_child)
          => _check_max_parents_violations(member_rows, rows,
                                           new_settings.max_parents_per_child) = {}

\* the settings a custodian sends: the marriage rules in every combination,
\* the parent rules as TreeSettings() has them
SettingsUpdates ==
  {[DefaultSettings EXCEPT !.monogamy = m, !.allow_polygamy = p,
                           !.max_spouses_per_member = x, !.allow_same_sex = g] :
      m \in BOOLEAN, p \in BOOLEAN, x \in {None, 1}, g \in BOOLEAN}

\* PATCH /trees/{tree_id} with a settings body
update_tree ==
  /\ pc = "idle"
  /\ \E new_settings \in SettingsUpdates :
        /\ requests' = Request("update_tree", None, None, new_settings)
        /\ IF new_settings.monogamy /\ new_settings.allow_polygamy
             THEN status' = 400 /\ settings' = settings
             ELSE IF /\ new_settings.max_spouses_per_member # None
                     /\ new_settings.max_spouses_per_member < 1
             THEN status' = 400 /\ settings' = settings
             ELSE IF ~ validate_settings_change(members, rels, settings, new_settings)
             THEN status' = 409 /\ settings' = settings
             ELSE status' = 200 /\ settings' = new_settings
  /\ UNCHANGED <<formatting, members, rels, created, inserted, pc, from_id, to_id,
                 result, traversal, genders>>

\* a tree of three members and no relationship row, with its default
\* settings; each member row stores a gender or none
InitMarriage ==
  /\ members = MemberRows(MaxTreeMembers)
  /\ rels = <<>>
  /\ created = 0
  /\ inserted = 0
  /\ pc = "idle"
  /\ from_id = None
  /\ to_id = None
  /\ result = NoResult
  /\ built = NoGraph
  /\ maps = <<>>
  /\ turn = 0
  /\ bfs = NoSearch
  /\ walk = NoSearch
  /\ NoFormatting
  /\ settings = DefaultSettings
  /\ status = 0
  /\ requests = <<>>
  /\ genders \in [1..MaxTreeMembers -> {"", "male", "female"}]

NextMarriage == add_spouse \/ remove_spouse \/ update_tree

SpecMarriage == InitMarriage /\ [][NextMarriage]_vars

(***************************************************************************)
(* Child management (add_child, remove_child), one request at a time, by a *)
(* custodian of the tree.                                                  *)
(***************************************************************************)
\* count of the rows of type parent-child with child_id as the child
_get_parent_count(child_id, rows) ==
  Cardinality({i \in 1..Len(rows) : rows[i].type = "parent-child" /\ rows[i].b = child_id})

\* is_parent_of_self: a row that makes the child a parent of the parent
IsParentOfSelf(id, child_id, rows) ==
  \E i \in 1..Len(rows) :
     rows[i].type = "parent-child" /\ rows[i].a = child_id /\ rows[i].b = id

\* new_parent_count
NewParentCount(child_id, second_parent_id, rows) ==
  _get_parent_count(child_id, rows) + 1 + (IF second_parent_id # None THEN 1 ELSE 0)

\* the status add_child answers with on the stored rows: 201 when the rows
\* are created, otherwise the status of the first HTTPException raised
AddChildStatus(id, child_id, second_parent_id, rows) ==
  IF ~ MemberExists(id) THEN 404
  ELSE IF ~ MemberExists(child_id) THEN 404
  ELSE IF id = child_id THEN 400
  ELSE IF IsParentOfSelf(id, child_id, rows) THEN 400
  ELSE IF _relationship_exists(id, child_id, "parent-child", rows) THEN 409
  ELSE IF second_parent_id # None /\ ~ MemberExists(second_parent_id) THEN 404
  ELSE IF /\ second_parent_id # None
          /\ (second_parent_id = child_id \/ second_parent_id = id)
       THEN 400
  ELSE IF /\ second_parent_id # None
          /\ _relationship_exists(second_parent_id, child_id, "parent-child", rows)
       THEN 409
  ELSE IF /\ _get_parent_count(child_id, rows) = 0
          /\ second_parent_id = None
          /\ ~ settings.allow_single_parent
       THEN 400
  ELSE IF /\ NewParentCount(child_id, second_parent_id, rows) > 2
          /\ ~ settings.allow_multi_parent_children
       THEN 400
  ELSE IF /\ settings.max_parents_per_child # None
          /\ NewParentCount(child_id, second_parent_id, rows)
               > settings.max_parents_per_child
       THEN 400
  ELSE 201

\* the rows add_child commits
ChildRows(id, child_id, second_parent_id) ==
  <<Row("parent-child", id, child_id)>>
    \o (IF second_parent_id # None
          THEN <<Row("parent-child", second_parent_id, child_id)>>
          ELSE <<>>)

\* POST /members/{id}/children?child_id=&second_parent_id=
add_child ==
  /\ pc = "idle"
  /\ \E id \in QueryIds, child_id \in QueryIds, second_parent_id \in {None} \cup QueryIds :
        /\ status' = AddChildStatus(id, child_id, second_parent_id, rels)
        /\ rels' = IF status' = 201
                     THEN rels \o ChildRows(id, child_id, second_parent_id)
                     ELSE rels
        /\ requests' = Request("add_child", id, child_id, DefaultSettings)
  /\ UNCHANGED <<formatting, members, created, inserted, pc, from_id, to_id, result,
                 traversal, settings, genders>>

\* the parent-child rows from the parent to the child
ChildRowsBetween(id, childId) ==
  {i \in 1..Len(rels) :
     rels[i].type = "parent-child" /\ rels[i].a = id /\ rels[i].b = childId}

\* DELETE /members/{id}/children/{childId}
remove_child ==
  /\ pc = "idle"
  /\ \E id \in QueryIds, childId \in QueryIds :
        /\ requests' = Request("remove_child", id, childId, DefaultSettings)
        /\ IF ~ MemberExists(id) \/ ~ MemberExists(childId)
              \/ ChildRowsBetween(id, childId) = {}
             THEN status' = 404 /\ rels' = rels
             ELSE /\ status' = 204
                  /\ \E i \in ChildRowsBetween(id, childId) : rels' = Delete(rels, i)
  /\ UNCHANGED <<formatting, members, created, inserted, pc, from_id, to_id, result,
                 traversal, settings, genders>>

\* the parent rules of a tree: those of TreeSettings(), single parents
\* refused, or any number of parents allowed
ParentRules ==
  {DefaultSettings,
   [DefaultSettings EXCEPT !.allow_single_parent = FALSE],
   [DefaultSettings EXCEPT !.allow_multi_parent_children = TRUE,
                           !.max_parents_per_child = None]}

\* a tree of three members and no relationship row
InitChildren ==
  /\ members = MemberRows(MaxTreeMembers)
  /\ rels = <<>>
  /\ created = 0
  /\ inserted = 0
  /\ pc = "idle"
  /\ from_id = None
  /\ to_id = None
  /\ result = NoResult
  /\ built = NoGraph
  /\ maps = <<>>
  /\ turn = 0
  /\ bfs = NoSearch
  /\ walk = NoSearch
  /\ NoFormatting
  /\ settings \in ParentRules
  /\ status = 0
  /\ requests = <<>>
  /\ genders = [i \in 1..MaxTreeMembers |-> ""]

NextChildren == add_child \/ remove_child

SpecChildren == InitChildren /\ [][NextChildren]_vars

(***************************************************************************)
(* Two add_spouse requests handled at the same time, each in its own       *)
(* database session.  A request reads the committed rows once for its      *)
(* duplicate check and once more for its spouse counts, and commits its    *)
(* row in a third step; the steps of the two requests interleave freely.   *)
(* `requests` holds, for each request, its parameters, the statement it    *)
(* has reached and the status it was answered with (0 while it runs).      *)
(***************************************************************************)
\* a request that has not run any statement yet
Incoming(id, spouse_id) ==
  [id |-> id, spouse_id |-> spouse_id, at |-> "duplicate check", status |-> 0]

\* the request answered with the status
Answer(request, code) == [request EXCEPT !.at = "answered", !.status = code]

\* the request moved on to the statement
Goto(request, statement) == [request EXCEPT !.at = statement]

\* the lookups of both members, the self test and the duplicate check
DuplicateCheck ==
  /\ pc = "idle"
  /\ \E r \in DOMAIN requests :
        /\ requests[r].at = "duplicate check"
        /\ LET code == AddSpouseLookups(requests[r].id, requests[r].spouse_id, rels) IN
             /\ requests' = [requests EXCEPT ![r] =
                               IF code = None THEN Goto(@, "spouse count")
                                              ELSE Answer(@, code)]
             /\ status' = IF code = None THEN status ELSE code
  /\ UNCHANGED <<formatting, members, rels, created, inserted, pc, from_id, to_id,
                 result, traversal, settings, genders>>

\* the spouse counts of both members and the validations on them
SpouseCountCheck ==
  /\ pc = "idle"
  /\ \E r \in DOMAIN requests :
        /\ requests[r].at = "spouse count"
        /\ LET code == AddSpouseValidations(requests[r].id, requests[r].spouse_id, rels) IN
             /\ requests' = [requests EXCEPT ![r] =
                               IF code = 201 THEN Goto(@, "insert") ELSE Answer(@, code)]
             /\ status' = IF code = 201 THEN status ELSE code
  /\ UNCHANGED <<formatting, members, rels, created, inserted, pc, from_id, to_id,
                 result, traversal, settings, genders>>

\* db_session.add(relationship); db_session.commit()
InsertSpouse ==
  /\ pc = "idle"
  /\ \E r \in DOMAIN requests :
        /\ requests[r].at = "insert"
        /\ rels' = Append(rels, Row("spouse", requests[r].id, requests[r].spouse_id))
        /\ requests' = [requests EXCEPT ![r] = Answer(@, 201)]
        /\ status' = 201
  /\ UNCHANGED <<formatting, members, created, inserted, pc, from_id, to_id, result,
                 traversal, settings, genders>>

\* a monogamy tree of three members, unmarried or with one couple, and two
\* incoming requests that name a common member
InitRace ==
  /\ members = MemberRows(MaxTreeMembers)
  /\ rels \in {<<>>, <<Row("spouse", 1, 2)>>}
  /\ created = 0
  /\ inserted = 0
  /\ pc = "idle"
  /\ from_id = None
  /\ to_id = None
  /\ result = NoResult
  /\ built = NoGraph
  /\ maps = <<>>
  /\ turn = 0
  /\ bfs = NoSearch
  /\ walk = NoSearch
  /\ NoFormatting
  /\ settings = DefaultSettings
  /\ status = 0
  /\ \E a \in Range(members), b \in QueryIds, c \in Range(members), d \in QueryIds :
        /\ {a, b} \cap {c, d} # {}
        /\ requests = <<Incoming(a, b), Incoming(c, d)>>
  /\ genders = [i \in 1..MaxTreeMembers |-> ""]

NextRace == DuplicateCheck \/ SpouseCountCheck \/ InsertSpouse

SpecRace == InitRace /\ [][NextRace]_vars

(***************************************************************************)
(* Kinship read directly off the stored rows, independently of the graph   *)
(* builder and of the breadth-first searches; used to state the claims.    *)
(***************************************************************************)
Graph == _build_relationship_graph(members, rels)

IsMember(m) == m \in Range(members)

\* p is recorded as a parent of c
ParentRow(p, c) ==
  \E i \in 1..Len(rels) : rels[i].type = "parent-child" /\ rels[i].a = p /\ rels[i].b = c

\* a and b are recorded as spouses
SpouseRow(a, b) ==
  \E i \in 1..Len(rels) :
     /\ rels[i].type = "spouse"
     /\ \/ (rels[i].a = a /\ rels[i].b = b)
        \/ (rels[i].a = b /\ rels[i].b = a)

ParentSet(c) == {p \in Range(members) : ParentRow(p, c)}

\* the sets of members 1, 2, ... parent hops above the members of cur, up to
\* k hops, stopping at the first empty one
RECURSIVE Levels(_, _)
Levels(cur, k) ==
  LET above == UNION {ParentSet(x) : x \in cur} IN
  IF k = 0 \/ above = {} THEN <<>> ELSE <<above>> \o Levels(above, k - 1)

\* the least number of parent hops from c up to each of its ancestors (every
\* other member reachable by parent hops)
GenerationMap(c) ==
  LET lv == Levels({c}, Len(members)) IN
  [x \in (UNION Range(lv)) \ {c} |->
     CHOOSE k \in 1..Len(lv) : x \in lv[k] /\ \A j \in 1..(k - 1) : x \notin lv[j]]

AncestorSet(c) == DOMAIN GenerationMap(c)

Generations(c, x) == GenerationMap(c)[x]

\* the common ancestors with the least sum of generations, given the
\* generation maps of the two members
ClosestIn(ga, gb) ==
  {c \in DOMAIN ga \cap DOMAIN gb :
     \A e \in DOMAIN ga \cap DOMAIN gb : ga[c] + gb[c] <= ga[e] + gb[e]}

\* no member is its own ancestor
Acyclic == \A m \in Range(members) : m \notin UNION Range(Levels({m}, Len(members)))

RECURSIVE Great(_)
Great(n) == IF n <= 0 THEN "" ELSE "great-" \o Great(n - 1)

\* the conventional English ordinal
EnglishOrdinal(n) ==
  ToString(n) \o (IF n % 100 \in {11, 12, 13} THEN "th"
                  ELSE IF n % 10 = 1 THEN "st"
                  ELSE IF n % 10 = 2 THEN "nd"
                  ELSE IF n % 10 = 3 THEN "rd" ELSE "th")

Removed(r) ==
  IF r = 0 THEN "" ELSE IF r = 1 THEN ", once removed"
  ELSE IF r = 2 THEN ", twice removed"
  ELSE ", " \o ToString(r) \o " times removed"

\* the collateral label the specification gives for generation distances
Kin(df, dt) ==
  IF df = 1 /\ dt = 1 THEN "sibling"
  ELSE IF df = 1 THEN Great(dt - 2) \o "aunt/uncle"
  ELSE IF dt = 1 THEN Great(df - 2) \o "niece/nephew"
  ELSE EnglishOrdinal((IF df < dt THEN df ELSE dt) - 1) \o " cousin"
         \o Removed(IF df < dt THEN dt - df ELSE df - dt)

\* a query was answered and its answer is in result
Answered == pc = "answered"

\* the asked pair are distinct, unmarried to each other, neither an ancestor
\* of the other, and have a common ancestor
CollateralCase ==
  /\ Answered
  /\ from_id # to_id
  /\ ~ SpouseRow(from_id, to_id)
  /\ LET gf == GenerationMap(from_id)
         gt == GenerationMap(to_id)
     IN  /\ from_id \notin DOMAIN gt
         /\ to_id \notin DOMAIN gf
         /\ DOMAIN gf \cap DOMAIN gt # {}

LinealCase ==
  /\ Answered
  /\ from_id # to_id
  /\ ~ SpouseRow(from_id, to_id)
  /\ from_id \in AncestorSet(to_id)
  /\ Generations(to_id, from_id) >= 2

LinealLabels ==
  /\ Str(result.label) = Great(Generations(to_id, from_id) - 2) \o "grandparent"
  /\ Str(_compute_relationship(to_id, from_id, Graph).label)
       = Great(Generations(to_id, from_id) - 2) \o "grandchild"

C3_Order ==
  Answered =>
    IF from_id = to_id
    THEN Str(result.label) = "self" /\ result.path = <<from_id>>
    ELSE IF SpouseRow(from_id, to_id) THEN Str(result.label) = "spouse"
    ELSE IF ParentRow(from_id, to_id) THEN Str(result.label) = "parent"
    ELSE ParentRow(to_id, from_id) => Str(result.label) = "child"

\* a parent married to their own child was classified as spouse
C3_Witness ==
  /\ Answered
  /\ from_id # to_id
  /\ SpouseRow(from_id, to_id)
  /\ ParentRow(from_id, to_id)
  /\ Str(result.label) = "spouse"

(***************************************************************************)
(* C5.  The scenario tree: G1 (1) is parent of P1 (2) and U1 (4), P1 is    *)
(* parent of C1 (3), U1 is parent of Cousin1 (5), no other edges.          *)
(***************************************************************************)
ScenarioTree == members = MemberRows(5) /\ rels = Family(2, 2)

\* C5 as claimed: (C1, G1) is grandparent and (C1, Cousin1) is 1st cousin
C5_AsClaimed ==
  (Answered /\ ScenarioTree /\ from_id = 3) =>
     /\ to_id = 1 => Str(result.label) = "grandparent"
     /\ to_id = 5 => Str(result.label) = "1st cousin"

\* C5 as amended: the label states from's relation to to, so (C1, G1) is
\* grandchild, (G1, C1) is grandparent, and (C1, Cousin1) is 1st cousin
C5_Scenario ==
  (Answered /\ ScenarioTree) =>
     /\ (from_id = 3 /\ to_id = 1) => Str(result.label) = "grandchild"
     /\ (from_id = 1 /\ to_id = 3) => Str(result.label) = "grandparent"
     /\ (from_id = 3 /\ to_id = 5) => Str(result.label) = "1st cousin"

\* C1 was asked about G1 in the scenario tree
C5_Witness ==
  Answered /\ ScenarioTree /\ from_id = 3 /\ to_id = 1 /\ Str(result.label) = "grandchild"

(***************************************************************************)
(* C6.  Ancestors of a spouse.                                             *)
(***************************************************************************)
SpouseSet(m) == {x \in Range(members) : SpouseRow(m, x)}

\* neither is a parent, child or spouse of the other, neither is an ancestor
\* of the other and they have no common ancestor
Unrelated(a, b) ==
  /\ ~ SpouseRow(a, b)
  /\ LET ga == GenerationMap(a)
         gb == GenerationMap(b)
     IN  /\ a \notin DOMAIN gb
         /\ b \notin DOMAIN ga
         /\ DOMAIN ga \cap DOMAIN gb = {}

\* the spouses of from_id that have to_id as an ancestor
SpousesBelow == {x \in SpouseSet(from_id) : to_id \in AncestorSet(x)}

\* to_id is an ancestor of a spouse of from_id, at least distance d, and is
\* unrelated to from_id
SpouseAncestorCase(d) ==
  /\ Answered
  /\ IsMember(from_id) /\ IsMember(to_id) /\ from_id # to_id
  /\ SpouseSet(from_id) # {}
  /\ SpousesBelow # {}
  /\ \E x \in SpousesBelow : Generations(x, to_id) = d
  /\ \A x \in SpousesBelow : Generations(x, to_id) >= d
  /\ Unrelated(from_id, to_id)

InLawAncestor(d) ==
  IF d = 1 THEN "parent-in-law" ELSE Great(d - 2) \o "grandparent-in-law"

\* C6 as claimed: an ancestor at least distance d of a spouse of from, not
\* otherwise related to from, is from's (great-)(grand)parent-in-law
C6_AsClaimed ==
  \A d \in 1..Len(members) :
     SpouseAncestorCase(d) => Str(result.label) = InLawAncestor(d)

\* the tests that precede the remapping of the spouse's ancestors find
\* nothing: to_id is no child of the spouse, no child of a parent of the
\* spouse, and not married to a parent or a child of from_id
NoNearerInLaw(spouse_id) ==
  /\ ~ ParentRow(spouse_id, to_id)
  /\ ParentSet(spouse_id) \cap ParentSet(to_id) = {}
  /\ \A x \in Range(members) :
        SpouseRow(x, to_id) => ~ ParentRow(x, from_id) /\ ~ ParentRow(from_id, x)

\* C6 as amended: when from has exactly one spouse, to is an ancestor of that
\* spouse at least distance d and is otherwise unrelated to from, the label
\* is parent-in-law for d = 1 and, provided to is no child of the spouse, no
\* child of a parent of the spouse and not married to a parent or child of
\* from, (great-)grandparent-in-law for d >= 2
C6_InLaw ==
  \A d \in 1..Len(members) :
     (SpouseAncestorCase(d) /\ Cardinality(SpouseSet(from_id)) = 1) =>
        \A spouse_id \in SpouseSet(from_id) :
           (d = 1 \/ NoNearerInLaw(spouse_id)) => Str(result.label) = InLawAncestor(d)

\* the great-grandparent of the only spouse was classified
C6_Witness ==
  /\ SpouseAncestorCase(3)
  /\ Cardinality(SpouseSet(from_id)) = 1
  /\ \A spouse_id \in SpouseSet(from_id) : NoNearerInLaw(spouse_id)
  /\ Str(result.label) = "great-grandparent-in-law"

(***************************************************************************)
(* C4.  Symmetry of blood results.                                         *)
(***************************************************************************)
LinealAndCollateral ==
  {"parent", "child", "grandparent", "grandchild", "aunt/uncle", "niece/nephew", "sibling"}

\* a label of the blood classifier: an optional run of "great-" before a
\* lineal or collateral word, or a cousin label; no in-law, step or cultural
\* label
IsBlood(label) ==
  /\ label # <<>>
  /\ \/ /\ label[Len(label)] \in LinealAndCollateral
        /\ \A i \in 1..(Len(label) - 1) : label[i] = "great-"
     \/ Len(label) >= 2 /\ label[2] = " cousin"

InverseWord(tok) ==
  CASE tok = "parent" -> "child"
    [] tok = "child" -> "parent"
    [] tok = "grandparent" -> "grandchild"
    [] tok = "grandchild" -> "grandparent"
    [] tok = "aunt/uncle" -> "niece/nephew"
    [] tok = "niece/nephew" -> "aunt/uncle"
    [] OTHER -> tok

\* the fixed mapping: the same "great-" count, degree and removal
Inverse(label) == [i \in 1..Len(label) |-> InverseWord(label[i])]

\* C4: on an acyclic parent graph, a blood result for (A, B) and the result
\* for (B, A) are inverses under the fixed mapping
C4_Symmetry ==
  (Answered /\ IsMember(from_id) /\ IsMember(to_id) /\ Acyclic /\ IsBlood(result.label)) =>
     _compute_relationship(to_id, from_id, Graph).label = Inverse(result.label)

(***************************************************************************)
(* C7.  A parent's cousin.                                                 *)
(***************************************************************************)
\* a and b are n-th cousins with no removal: neither is an ancestor of the
\* other and a closest common ancestor is n + 1 generations above both
NthCousins(a, b, n) ==
  /\ a # b
  /\ LET ga == GenerationMap(a)
         gb == GenerationMap(b)
     IN  /\ a \notin DOMAIN gb
         /\ b \notin DOMAIN ga
         /\ \E c \in ClosestIn(ga, gb) : ga[c] = n + 1 /\ gb[c] = n + 1

\* C7: when to is an Nth cousin of a parent of from, the label is
\* "<ordinal(N+1)> aunt/uncle"
C7_ParentsCousin ==
  Answered =>
    \A n \in 1..Len(members) :
       (\E p \in ParentSet(from_id) : NthCousins(p, to_id, n))
          => Str(result.label) = EnglishOrdinal(n + 1) \o " aunt/uncle"

(***************************************************************************)
(* C8.  The unknown result.                                                *)
(***************************************************************************)
\* the members one row away from a member of s, and s itself
Neighbours(s) ==
  s \cup {x \in Range(members) :
            \E y \in s : ParentRow(x, y) \/ ParentRow(y, x) \/ SpouseRow(x, y)}

RECURSIVE Component(_, _)
Component(s, k) == IF k = 0 THEN s ELSE Component(Neighbours(s), k - 1)

\* no chain of rows leads from a to b
Disconnected(a, b) == b \notin Component({a}, Len(members))

\* a label was returned
Returned == result.label # <<>> /\ result.path # <<>>

\* C8: for two members of the graph a label is always returned, on every
\* graph; members of different components get "unknown" with the path
\* [from, to], and that is the path of every "unknown" result
C8_Unknown ==
  (Answered /\ IsMember(from_id) /\ IsMember(to_id)) =>
     /\ Returned
     /\ Disconnected(from_id, to_id) => result = Result(<<"unknown">>, <<from_id, to_id>>)
     /\ result.label = <<"unknown">> => result.path = <<from_id, to_id>>

\* two members of different components were asked about on a graph with a
\* parent cycle
C8_Witness ==
  /\ Answered /\ IsMember(from_id) /\ IsMember(to_id)
  /\ Disconnected(from_id, to_id)
  /\ ~ Acyclic
  /\ result.label = <<"unknown">>

(***************************************************************************)
(* C10.  Ids that are not members.                                         *)
(***************************************************************************)
\* C10: when from or to is no member of the graph, the engine returns no
\* label (it fails instead)
C10_FailFast ==
  (Answered /\ (~ IsMember(from_id) \/ ~ IsMember(to_id))) => ~ Returned

(***************************************************************************)
(* C9.  Termination on malformed parentage.                                *)
(***************************************************************************)
Running == pc \in {"ancestors", "path", "passes", "returning"}

\* C9: on every snapshot, parent cycles of any length and self-referential
\* rows included, every loop of a query that has started comes to its end
\* (the ancestor searches of from, of to and of the members the in-law and
\* cultural passes expand, and the path search), and the query then returns
\* a label
C9_Terminates == (Running ~> Done) /\ [](Answered => Returned)

\* a query from a member of a two-member parent cycle, on a snapshot that
\* also holds a self-referential parent row, was answered
C9_Witness ==
  /\ Answered /\ Returned
  /\ \E b \in Range(members) :
        b # from_id /\ ParentRow(from_id, b) /\ ParentRow(b, from_id)
  /\ \E c \in Range(members) : ParentRow(c, c)

(***************************************************************************)
(* C11.  Dangling edges.                                                   *)
(***************************************************************************)
\* C11: on a snapshot with a row one of whose endpoints is no member of the
\* tree, building the graph completes normally
C11_DanglingTolerated ==
  (pc # "idle" /\ Dangling(members, rels)) => pc = "built"

(***************************************************************************)
(* C12.  Labels the gender renderer leaves alone.                          *)
(***************************************************************************)
\* the gender is one of the two the renderer has words for, in any letter case
MaleOrFemale(g) == g \in {"male", "female", "Male", "Female"}

\* the label is a token of the base table or carries one of the three affixes
MappedToken(label) ==
  \/ Str(label) \in {"parent", "child", "sibling", "half-sibling", "grandparent",
                     "grandchild", "aunt/uncle", "niece/nephew", "cousin-aunt/uncle",
                     "cousin-niece/nephew"}
  \/ \E i \in 1..Len(label) : label[i] \in {"great-", "-in-law", "step-"}

\* C12: a label of the engine is returned exactly as given when the gender of
\* the subject is missing or is not male/female, and, whatever the gender,
\* when the label is no mapped token
C12_Unchanged ==
  (pc = "rendered" /\ (~ MaleOrFemale(gender) \/ ~ MappedToken(result.label)))
     => gendered = result.label

C12_Witness ==
  /\ pc = "rendered"
  /\ gender = "woman"
  /\ result.label = <<"great-", "grandparent">>
  /\ gendered = result.label

(***************************************************************************)
(* C13.  The ordinal formatter.                                            *)
(***************************************************************************)
\* the suffix as claimed: th for n mod 100 in [10, 20], else by last digit
BandSuffix(k) ==
  IF k % 100 \in 10..20 THEN "th"
  ELSE IF k % 10 = 1 THEN "st"
  ELSE IF k % 10 = 2 THEN "nd"
  ELSE IF k % 10 = 3 THEN "rd"
  ELSE "th"

\* C13: ordinal(n) is the decimal n followed by the suffix of the band rule,
\* which is the conventional English ordinal of n
C13_Ordinal ==
  pc = "formatted"
     => /\ ordinal = ToString(level) \o BandSuffix(level)
        /\ ordinal = EnglishOrdinal(level)

C13_Witness == pc = "formatted" /\ level = 112 /\ ordinal = "112th"

(***************************************************************************)
(* C14.  The distances behind a collateral label.                          *)
(***************************************************************************)
\* the label returned is sibling, (great-)aunt/uncle, (great-)niece/nephew or
\* a cousin label
CollateralReturned ==
  Answered /\ Str(result.label) \in {Kin(df, dt) : df, dt \in 1..Len(members)}

\* the common ancestor and the distances the label was computed from
ChosenAncestor ==
  ClosestCommonAncestor(_get_ancestors_and_distance(from_id, Graph),
                        _get_ancestors_and_distance(to_id, Graph))

\* the distances are the least generations to the ancestor chosen and their
\* sum is the least among the common ancestors
MinimalTo(chosen, gf, gt) ==
  /\ chosen.closest_common_ancestor \in DOMAIN gf \cap DOMAIN gt
  /\ chosen.dist_from = gf[chosen.closest_common_ancestor]
  /\ chosen.dist_to = gt[chosen.closest_common_ancestor]
  /\ chosen.closest_common_ancestor \in ClosestIn(gf, gt)
  /\ result = Result(CollateralLabel(chosen.dist_from, chosen.dist_to),
                     <<from_id, chosen.closest_common_ancestor, to_id>>)
  /\ Str(result.label) = Kin(chosen.dist_from, chosen.dist_to)

\* C14: a collateral label is computed from the least generation distances of
\* from and to to one common ancestor, whose sum of distances is the least
\* among the members in both ancestor maps
C14_MinimalDistances ==
  CollateralReturned
     => MinimalTo(ChosenAncestor, GenerationMap(from_id), GenerationMap(to_id))

\* some common ancestor is further than the chosen one, and some ancestor is
\* reached along two lines of different length
FurtherAncestor(gf, gt) ==
  /\ \E c, e \in DOMAIN gf \cap DOMAIN gt : gf[c] + gt[c] < gf[e] + gt[e]
  /\ \E c \in DOMAIN gf \cap DOMAIN gt :
        \E p, q \in ParentSet(from_id) :
           /\ c \in DOMAIN GenerationMap(p) /\ c \in DOMAIN GenerationMap(q)
           /\ GenerationMap(p)[c] # GenerationMap(q)[c]

C14_Witness ==
  /\ CollateralReturned
  /\ FurtherAncestor(GenerationMap(from_id), GenerationMap(to_id))

(***************************************************************************)
(* C15.  Common ancestors that tie.                                        *)
(***************************************************************************)
\* several common ancestors of from and to have the least sum of generations
TieCase ==
  /\ Answered
  /\ IsMember(from_id) /\ IsMember(to_id)
  /\ Cardinality(ClosestIn(GenerationMap(from_id), GenerationMap(to_id))) > 1
  /\ CollateralReturned

RowKey(r) == (IF r.type = "spouse" THEN 100 ELSE 0) + 10 * r.a + r.b

\* the label of (from, to) when the members and the rows are listed in
\* ascending order
SortedLabel ==
  _compute_relationship(from_id, to_id,
    _build_relationship_graph(SortSeq(members, LAMBDA a, b : a < b),
                              SortSeq(rels, LAMBDA r, q : RowKey(r) < RowKey(q)))).label

\* C15: when several common ancestors tie on the least df + dt, the label is
\* the same in whatever order the members and the parent-child rows of the
\* family are listed
C15_OrderFree == TieCase => result.label = SortedLabel

\* the tied ancestors are at different distances from from, and the rows are
\* listed with the nearer one's row last
C15_Witness ==
  /\ TieCase
  /\ \E c, e \in ClosestIn(GenerationMap(from_id), GenerationMap(to_id)) :
        GenerationMap(from_id)[c] # GenerationMap(from_id)[e]
  /\ rels # SortSeq(rels, LAMBDA r, q : RowKey(r) < RowKey(q))
  /\ members # SortSeq(members, LAMBDA a, b : a < b)
  /\ rels[Len(rels)] = Row("parent-child", 1, 4)

(***************************************************************************)
(* C16.  The ancestor map.                                                 *)
(***************************************************************************)
\* the search for the ancestors of Order[turn] has ended
SearchEnded == pc \in {"ancestors", "passes"} /\ turn >= 1 /\ bfs.queue = <<>>

\* the dict holds exactly the keys of g, once each, with the values of g
SameMap(anc, g) ==
  /\ {anc[i].id : i \in 1..Len(anc)} = DOMAIN g
  /\ \A i, j \in 1..Len(anc) : anc[i].id = anc[j].id => i = j
  /\ \A i \in 1..Len(anc) : anc[i].d = g[anc[i].id]

\* C16: ancestorsOf(start) holds exactly the members other than start that one
\* or more parent hops reach from start, each with the length of the shortest
\* chain to it, also when lines reconverge; start is never a key, even when
\* it is reachable from itself
C16_AncestorsOf ==
  SearchEnded
     => /\ SameMap(bfs.ancestors, GenerationMap(Order[turn]))
        /\ ~ InMap(bfs.ancestors, Order[turn])

\* start is reachable from itself and an ancestor of it is reached by chains
\* of different lengths
C16_Witness ==
  /\ SearchEnded
  /\ LET lv == Levels({Order[turn]}, Len(members)) IN
       /\ Order[turn] \in UNION Range(lv)
       /\ \E x \in Range(members) \ {Order[turn]} :
             \E j, k \in 1..Len(lv) : j # k /\ x \in lv[j] /\ x \in lv[k]
  /\ Len(bfs.ancestors) >= 2

(***************************************************************************)
(* C17.  The adjacency maps.                                               *)
(***************************************************************************)
\* how often x occurs in list
Count(x, list) == Cardinality({i \in 1..Len(list) : list[i] = x})

\* C17: in every graph the builder returns, p occurs among the parents of c
\* exactly as often as c occurs among the children of p, and b is a spouse of
\* a if and only if a is a spouse of b
C17_Inverse ==
  pc = "built"
     => \A a \in Range(members), b \in Range(members) :
           /\ Count(a, built.parents[b]) = Count(b, built.children[a])
           /\ InList(b, built.spouses[a]) <=> InList(a, built.spouses[b])

\* a parent-child row stored twice, and a spouse row
C17_Witness ==
  /\ pc = "built"
  /\ \E a \in Range(members), b \in Range(members) :
        /\ a # b
        /\ Count(a, built.parents[b]) = 2
        /\ InList(a, built.spouses[b])

(***************************************************************************)
(* C18.  The path of an ancestor or descendant result.                     *)
(***************************************************************************)
\* the label returned is (great-)grandparent or (great-)grandchild
LinealReturned ==
  /\ Answered
  /\ \E k \in 0..Len(members) :
        Str(result.label) \in {Great(k) \o "grandparent", Great(k) \o "grandchild"}

\* path is a chain of d recorded parent-child rows from from_id to to_id,
\* upwards or downwards
Chain(path, d, up) ==
  /\ Len(path) = d + 1
  /\ path[1] = from_id
  /\ path[d + 1] = to_id
  /\ \A i \in 1..d : IF up THEN ParentRow(path[i + 1], path[i])
                     ELSE ParentRow(path[i], path[i + 1])

\* the label and the path are those of the least distance d in the direction
\* the label names
LinealAt(up, older, younger) ==
  /\ older \in AncestorSet(younger)
  /\ Generations(younger, older) >= 2
  /\ Str(result.label) = Great(Generations(younger, older) - 2)
                           \o (IF up THEN "grandchild" ELSE "grandparent")
  /\ Chain(result.path, Generations(younger, older), up)

\* C18: an ancestor or descendant result at least distance d >= 2 has the
\* label of d and a path of d + 1 entries from from to to, whose consecutive
\* pairs are recorded parent-child rows
C18_Path ==
  LinealReturned
     => IF result.label[Len(result.label)] = "grandchild"
        THEN LinealAt(TRUE, to_id, from_id)
        ELSE LinealAt(FALSE, from_id, to_id)

\* a great-grandparent or great-grandchild reached by a longer chain as well
C18_Witness ==
  /\ LinealReturned
  /\ Len(result.path) = 4
  /\ \E x \in {from_id, to_id}, y \in {from_id, to_id} :
        LET lv == Levels({x}, Len(members)) IN
        Len(lv) >= 4 /\ y \in lv[3] /\ y \in lv[4]

(***************************************************************************)
(* C19.  Step-parents and step-children.                                   *)
(***************************************************************************)
\* neither is an ancestor of the other and they have no common ancestor
NoBlood(a, b) ==
  LET ga == GenerationMap(a)
      gb == GenerationMap(b)
  IN  /\ a \notin DOMAIN gb
      /\ b \notin DOMAIN ga
      /\ DOMAIN ga \cap DOMAIN gb = {}

\* step is married to a parent of child, is no parent of child and no blood
\* relation of it
StepCase(child, step) ==
  /\ Answered
  /\ IsMember(child) /\ IsMember(step) /\ child # step
  /\ \E p \in ParentSet(child) : SpouseRow(p, step)
  /\ step \notin ParentSet(child)
  /\ NoBlood(child, step)

\* C19 as claimed: a spouse of a parent of from that is no parent and no blood
\* relation of from is from's step-parent, and from is its step-child;
\* step-child is never the answer when to is a recorded child of from
C19_AsClaimed ==
  /\ StepCase(from_id, to_id) => Str(result.label) = "step-parent"
  /\ StepCase(to_id, from_id) => Str(result.label) = "step-child"
  /\ (Answered /\ ParentRow(from_id, to_id)) => Str(result.label) # "step-child"

\* the tests that come before the step-parent test find nothing: from and to
\* are not married, to is no parent, child or sibling of a spouse of from,
\* and to is not married to a child of from
NoNearerThanStepParent ==
  /\ ~ SpouseRow(from_id, to_id)
  /\ \A x \in SpouseSet(from_id) :
        /\ ~ ParentRow(to_id, x)
        /\ ~ ParentRow(x, to_id)
        /\ ParentSet(x) \cap ParentSet(to_id) = {}
  /\ \A x \in Range(members) : ParentRow(from_id, x) => ~ SpouseRow(x, to_id)

\* the tests that come before the step-child test find nothing: from and to
\* are not married, to is no parent of a spouse of from, and shares no parent
\* with a spouse of from that is not its own parent
NoNearerThanStepChild ==
  /\ ~ SpouseRow(from_id, to_id)
  /\ \A x \in SpouseSet(from_id) :
        /\ ~ ParentRow(to_id, x)
        /\ ~ ParentRow(x, to_id) => ParentSet(x) \cap ParentSet(to_id) = {}

\* C19 as amended: the same, when from and to are not themselves married and
\* no nearer in-law test applies
C19_Step ==
  /\ (StepCase(from_id, to_id) /\ NoNearerThanStepParent)
        => Str(result.label) = "step-parent"
  /\ (StepCase(to_id, from_id) /\ NoNearerThanStepChild)
        => Str(result.label) = "step-child"
  /\ (Answered /\ ParentRow(from_id, to_id)) => Str(result.label) # "step-child"

\* a step-parent was named although from is married and has a married child
C19_Witness ==
  /\ StepCase(from_id, to_id)
  /\ NoNearerThanStepParent
  /\ SpouseSet(from_id) # {}
  /\ \E x \in Range(members) : ParentRow(from_id, x) /\ SpouseSet(x) # {}
  /\ Str(result.label) = "step-parent"

C19_WitnessChild ==
  /\ StepCase(to_id, from_id)
  /\ NoNearerThanStepChild
  /\ Cardinality(SpouseSet(from_id)) = 2
  /\ Str(result.label) = "step-child"

C19_WitnessOwnChild ==
  /\ Answered
  /\ ParentRow(from_id, to_id)
  /\ \E x \in SpouseSet(from_id) : ParentRow(x, to_id)

(***************************************************************************)
(* C20.  The spouse of a blood relative.                                   *)
(***************************************************************************)
\* to is married to relative and has no other row; from is another member
RelativeSpouseCase(relative) ==
  /\ Answered
  /\ IsMember(from_id) /\ IsMember(to_id) /\ IsMember(relative)
  /\ from_id # to_id /\ relative # from_id /\ relative # to_id
  /\ SpouseSet(to_id) = {relative}
  /\ \A x \in Range(members) : ~ ParentRow(x, to_id) /\ ~ ParentRow(to_id, x)
  /\ Acyclic

\* from is an ancestor of relative, d generations up
AncestorOfRelative(relative, d) ==
  from_id \in AncestorSet(relative) /\ Generations(relative, from_id) = d

\* relative is an ancestor of from, d generations up
DescendantOfRelative(relative, d) ==
  relative \in AncestorSet(from_id) /\ Generations(from_id, relative) = d

\* neither is an ancestor of the other and every closest common ancestor is
\* df generations above from and dr above relative
CollateralOfRelative(relative, df, dr) ==
  /\ from_id \notin AncestorSet(relative)
  /\ relative \notin AncestorSet(from_id)
  /\ ClosestIn(GenerationMap(from_id), GenerationMap(relative)) # {}
  /\ \A c \in ClosestIn(GenerationMap(from_id), GenerationMap(relative)) :
        Generations(from_id, c) = df /\ Generations(relative, c) = dr

\* C20: when to is the spouse of a blood relative R of from and has no other
\* relation to from, the label is child-in-law when from is R's parent,
\* grandchild-in-law when from is R's grandparent, grandparent-in-law when
\* from is R's grandchild, niece/nephew-in-law when from is R's aunt/uncle
\* and aunt/uncle-in-law when from is R's niece/nephew
C20_RelativeSpouse ==
  \A relative \in Range(members) :
     RelativeSpouseCase(relative) =>
        /\ AncestorOfRelative(relative, 1) => Str(result.label) = "child-in-law"
        /\ AncestorOfRelative(relative, 2) => Str(result.label) = "grandchild-in-law"
        /\ DescendantOfRelative(relative, 2) => Str(result.label) = "grandparent-in-law"
        /\ CollateralOfRelative(relative, 1, 2) => Str(result.label) = "niece/nephew-in-law"
        /\ CollateralOfRelative(relative, 2, 1) => Str(result.label) = "aunt/uncle-in-law"

(***************************************************************************)
(* C21.  The spouse of a cousin.                                           *)
(***************************************************************************)
\* relative is a blood cousin of from: neither is an ancestor of the other
\* and their closest common ancestors are two or more generations above both
CousinOfRelative(relative) ==
  \E df \in 2..Len(members), dr \in 2..Len(members) :
     CollateralOfRelative(relative, df, dr)

\* C21: when the spouse of to is a blood cousin of from, of any degree, and to
\* is not otherwise related to from, the label is exactly cousin-in-law
C21_CousinInLaw ==
  \A relative \in Range(members) :
     (RelativeSpouseCase(relative) /\ CousinOfRelative(relative))
        => Str(result.label) = "cousin-in-law"

(***************************************************************************)
(* C27.  The cultural adjuster.                                            *)
(***************************************************************************)
\* no spouse of from has to as a parent, as a child or as a sibling
NoSpouseSideMatch ==
  \A x \in SpouseSet(from_id) :
     /\ ~ ParentRow(to_id, x)
     /\ ~ ParentRow(x, to_id)
     /\ ParentSet(x) \cap ParentSet(to_id) = {}

\* the query got as far as the cultural adjuster: no direct edge, no ancestor
\* or descendant relation, no common ancestor, no spouse-side in-law match
CulturalReached ==
  /\ Answered
  /\ IsMember(from_id) /\ IsMember(to_id) /\ from_id # to_id
  /\ ~ SpouseRow(from_id, to_id)
  /\ NoBlood(from_id, to_id)
  /\ NoSpouseSideMatch

\* the labels only the cultural adjuster builds
CulturalOnly ==
  {EnglishOrdinal(n) \o " " \o Great(k) \o base :
      n \in 2..(Len(members) + 1), k \in 0..Len(members),
      base \in {"aunt/uncle", "niece/nephew"}}
    \cup {"cousin-aunt/uncle", "cousin-in-law"}

BloodNothing ==
  /\ Answered
  /\ IsMember(from_id) /\ IsMember(to_id) /\ from_id # to_id
  /\ ~ SpouseRow(from_id, to_id)
  /\ NoBlood(from_id, to_id)

\* the positions of AfterBloodOrder whose pass is tried for the answered query
Tried == {i \in DOMAIN AfterBloodOrder : PassRuns(i, from_id, to_id, Graph)}

RenderedMale(base) ==
  pc = "rendered" /\ lower(gender) = "male" /\ Str(result.label) = base

\* C23: for a male member the renderer regenders the core of the label and
\* keeps its great-, step- and -in-law affixes
C23_Affixes ==
  /\ RenderedMale("great-great-grandparent") => Str(gendered) = "great-great-grandfather"
  /\ RenderedMale("grandparent-in-law") => Str(gendered) = "grandfather-in-law"
  /\ RenderedMale("great-grandparent-in-law") => Str(gendered) = "great-grandfather-in-law"
  /\ RenderedMale("niece/nephew-in-law") => Str(gendered) = "nephew-in-law"
  /\ RenderedMale("step-child") => Str(gendered) = "step-son"

(***************************************************************************)
(* C24.  Full and half siblings.                                           *)
(***************************************************************************)
\* from and to share a parent, are not married to each other and neither is an
\* ancestor of the other
SharedParentCase ==
  /\ Answered
  /\ IsMember(from_id) /\ IsMember(to_id) /\ from_id # to_id
  /\ ~ SpouseRow(from_id, to_id)
  /\ from_id \notin AncestorSet(to_id)
  /\ to_id \notin AncestorSet(from_id)
  /\ ParentSet(from_id) \cap ParentSet(to_id) # {}

\* C24: two members with the same parents are each other's sibling; two members
\* that share a parent but whose parent sets differ are half-siblings
C24_HalfSibling ==
  /\ (SharedParentCase /\ ParentSet(from_id) = ParentSet(to_id))
        => Str(result.label) = "sibling"
  /\ (SharedParentCase /\ ParentSet(from_id) # ParentSet(to_id))
        => Str(result.label) = "half-sibling"

(***************************************************************************)
(* C25.  Monogamy.                                                         *)
(***************************************************************************)
\* the members married to m in the stored rows
Married(m) ==
  {x \in Range(members) :
     \E i \in 1..Len(rels) :
        /\ rels[i].type = "spouse"
        /\ \/ rels[i].a = m /\ rels[i].b = x
           \/ rels[i].a = x /\ rels[i].b = m}

\* spouse rows naming m
SpouseRowCount(m) ==
  Cardinality({i \in 1..Len(rels) :
                 rels[i].type = "spouse" /\ (rels[i].a = m \/ rels[i].b = m)})

\* while monogamy is enabled no member has more than one spouse relationship
Monogamous ==
  settings.monogamy => \A m \in Range(members) : SpouseRowCount(m) <= 1

\* this step answers an add_spouse request between two members of a monogamy
\* tree of which one already has a spouse
AddToMarried ==
  /\ requests' # <<>> /\ requests'[1].op = "add_spouse"
  /\ settings.monogamy
  /\ IsMember(requests'[1].id) /\ IsMember(requests'[1].other)
  /\ SpouseRowCount(requests'[1].id) >= 1 \/ SpouseRowCount(requests'[1].other) >= 1

\* this step answers a settings update that turns monogamy on while a member
\* has more than one spouse
MonogamyOverBigamy ==
  /\ requests' # <<>> /\ requests'[1].op = "update_tree"
  /\ ~ settings.monogamy /\ requests'[1].body.monogamy
  /\ \E m \in Range(members) : SpouseRowCount(m) > 1

AlreadyMarried == requests'[1].other \in Married(requests'[1].id)

\* the settings update of this step asks for monogamy and polygamy at once
Contradictory == requests'[1].body.monogamy /\ requests'[1].body.allow_polygamy

C26_NoCircle ==
  (requests # <<>> /\ status \in {201, 204})
     => \A m \in Range(members) : m \notin UNION Range(Levels({m}, Len(members)))

(***************************************************************************)
(* C28.  The path of an answer.                                            *)
(***************************************************************************)
\* every stored row names two members
RowsNameMembers ==
  \A i \in 1..Len(rels) : IsMember(rels[i].a) /\ IsMember(rels[i].b)

\* C28: on a snapshot whose rows name only members, the path answered for two
\* members is not empty, begins with from, ends with to and holds member ids
\* only
C28_PathEnds ==
  (Answered /\ RowsNameMembers /\ IsMember(from_id) /\ IsMember(to_id))
     => /\ result.path # <<>>
        /\ result.path[1] = from_id
        /\ result.path[Len(result.path)] = to_id
        /\ Range(result.path) \subseteq Range(members)

\* the spouse of a child of from was answered with the path through that child
C28_Witness ==
  /\ Answered /\ RowsNameMembers /\ IsMember(from_id) /\ IsMember(to_id)
  /\ Len(result.path) = 3
  /\ ParentRow(from_id, result.path[2])
  /\ SpouseRow(result.path[2], to_id)

(***************************************************************************)
(* C29.  The order of the spouse rows.                                     *)
(***************************************************************************)
\* the positions of the spouse rows
SpousePositions == {i \in 1..Len(rels) : rels[i].type = "spouse"}

\* the number of spouse rows stored up to position i
SpouseRank(i) == Cardinality({j \in SpousePositions : j <= i})

\* the stored rows with the spouse rows listed in the opposite order
SpouseRowsReversed ==
  [i \in 1..Len(rels) |->
     IF i \in SpousePositions
       THEN rels[CHOOSE j \in SpousePositions :
                   SpouseRank(j) = Cardinality(SpousePositions) + 1 - SpouseRank(i)]
       ELSE rels[i]]

\* C29: when from has more than one spouse, the label answered for an in-law
\* of from is the label answered on the same rows with the spouse rows listed
\* in the opposite order
C29_SpouseOrder ==
  (/\ Answered
   /\ IsMember(from_id) /\ IsMember(to_id)
   /\ Cardinality(SpouseSet(from_id)) > 1
   /\ BloodNothing)
     => LabelOf(_compute_relationship(from_id, to_id,
                   _build_relationship_graph(members, SpouseRowsReversed)))
          = result.label

(***************************************************************************)
(* C30.  Two add_spouse requests at the same time.                         *)
(***************************************************************************)
\* both requests have been answered
BothAnswered == \A r \in DOMAIN requests : requests[r].at = "answered"

\* C30: two add_spouse requests of a monogamy tree that name a common member
\* are never both answered 201, and no member ends with more than one spouse
\* relationship
C30_OneSucceeds ==
  (requests # <<>> /\ BothAnswered)
     => /\ ~ (requests[1].status = 201 /\ requests[2].status = 201)
        /\ \A m \in Range(members) : SpouseRowCount(m) <= 1

====
